---- MODULE Spec2Model ----
(***************************************************************************)
(* A model of the structure-preserving translation pipeline of             *)
(* src/helpers/translation.py: the walker (_collect_translatable_strings,  *)
(* _reconstruct_data, _deep_copy), the glossary step                       *)
(* (_compile_patterns, _add_paired_translations), the orchestrator         *)
(* (translate) and the two backends (BhashiniTranslator, GoogleTranslator).*)
(*                                                                         *)
(* Python objects live in a heap: a mapping or a sequence is an object     *)
(* with an identity, a value is a scalar or a reference to an object, so   *)
(* that mutation and aliasing are observable.  Strings are sequences of    *)
(* characters.                                                             *)
(***************************************************************************)
EXTENDS Integers, Sequences, FiniteSets, TLC

(***************************************************************************)
(* Bounds of the model.                                                    *)
(***************************************************************************)
\* Longest bare string handed to translate / _should_translate_string.
MaxStrLen == 3

(***************************************************************************)
(* Characters and strings.                                                 *)
(***************************************************************************)
\* The alphabet: two letters that differ in case only, a whitespace
\* character and a punctuation character.
Chars == {"a", "A", " ", "!"}

\* The long s (U+017F), a lowercase letter that a case-insensitive pattern
\* takes for an "s"; it is written by its name here.
LongS == "long_s"

\* The capital I with a dot above (U+0130), whose str.lower() is two
\* characters: an "i" and the combining dot above (U+0307).
DottedI      == "dotted_I"
CombiningDot == "combining_dot"

\* str.isalnum() of one character.
isalnum(c) == c \in {"a", "A", "s", "S", LongS, "i", DottedI, "1"}

\* Whitespace in the sense of str.isspace(), str.strip() and the regex \s.
IsSpaceChar(c) == c \in {" ", "\n"}

\* str.isspace(): at least one character and all of them whitespace.
isspace(text) == Len(text) > 0 /\ \A i \in 1..Len(text) : IsSpaceChar(text[i])

\* All strings of length 0..n over Chars.
RECURSIVE StringsUpTo(_)
StringsUpTo(n) ==
  IF n = 0 THEN {<<>>}
  ELSE LET S == StringsUpTo(n - 1)
       IN  S \cup {Append(s, c) : s \in {t \in S : Len(t) = n - 1}, c \in Chars}

(***************************************************************************)
(* Values, path tokens and heap objects.                                   *)
(***************************************************************************)
Str(s)  == [tag |-> "str",  s |-> s,    n |-> 0]
Num(k)  == [tag |-> "num",  s |-> <<>>, n |-> k]
Null    == [tag |-> "null", s |-> <<>>, n |-> 0]
\* A reference to the heap object with identity i (a dict or a list).
Ref(i)  == [tag |-> "ref",  s |-> <<>>, n |-> i]

\* A path token is a mapping key or a sequence index.
Key(name) == [t |-> "key", name |-> name, idx |-> 0]
Idx(i)    == [t |-> "idx", name |-> "",   idx |-> i]

\* A comparison that only mapping keys can match, a sequence index never:
\* the slip C28_IndexMatchesExcludedKey is tested against.
StrOfTokenKeysOnly(tok) == IF tok.t = "key" THEN tok.name ELSE "<index>"

\* str(key) as _should_skip_path applies it to a token.
StrOfToken(tok) == IF tok.t = "key" THEN tok.name ELSE ToString(tok.idx)

\* A dict keeps its keys in insertion order; a list's keys are its indices.
DictObj(keys, vals) == [kind |-> "dict", keys |-> keys, vals |-> vals]
ListObj(vals) ==
  [kind |-> "list", keys |-> [i \in 1..Len(vals) |-> Idx(i - 1)], vals |-> vals]

(***************************************************************************)
(* BaseTranslator._should_skip_path and _should_translate_string.          *)
(***************************************************************************)
\* _should_skip_path looking at the first token only (the top-level key): the
\* slip C3_ExclusionInherited is tested against.
_should_skip_path_first_token(path, exclude_keys) ==
  IF exclude_keys = {} THEN FALSE
  ELSE path # <<>> /\ StrOfToken(path[1]) \in exclude_keys

_should_skip_path(path, exclude_keys) ==
  IF exclude_keys = {} THEN FALSE
  ELSE \E i \in 1..Len(path) : StrOfToken(path[i]) \in exclude_keys

\* _should_translate_string without the alphanumeric test: the slip
\* C7_CollectedIffAlnum is tested against.
_should_translate_string_nonblank(text) == ~(text = <<>> \/ isspace(text))

_should_translate_string(text) ==
  IF text = <<>> \/ isspace(text) THEN FALSE
  ELSE \E i \in 1..Len(text) : isalnum(text[i])

(***************************************************************************)
(* BaseTranslator._collect_translatable_strings: the depth-first walk.     *)
(* The result is the list of (path, string) pairs in traversal order.      *)
(***************************************************************************)
RECURSIVE dfs(_, _, _, _), dfsItems(_, _, _, _, _)
dfs(h, current_data, current_path, exclude_keys) ==
  IF _should_skip_path(current_path, exclude_keys) THEN <<>>
  ELSE IF current_data.tag = "str"
       THEN IF _should_translate_string(current_data.s)
            THEN << [path |-> current_path, s |-> current_data.s] >>
            ELSE <<>>
  ELSE IF current_data.tag = "ref"
       THEN dfsItems(h, h[current_data.n], 1, current_path, exclude_keys)
  ELSE <<>>

\* The loop over a dict's items (insertion order) or a list's elements.
dfsItems(h, obj, i, current_path, exclude_keys) ==
  IF i > Len(obj.keys) THEN <<>>
  ELSE dfs(h, obj.vals[i], Append(current_path, obj.keys[i]), exclude_keys)
       \o dfsItems(h, obj, i + 1, current_path, exclude_keys)

\* The walk appending current_path itself instead of a copy of it: every
\* pair then holds the one list, which is empty again when the walk ends.
\* The slip C27_PathsDistinctAndAddressLeaves is tested against.
_collect_translatable_strings_shared_path(h, data, exclude_keys) ==
  LET found == dfs(h, data, <<>>, exclude_keys)
  IN  [i \in 1..Len(found) |-> [path |-> <<>>, s |-> found[i].s]]

_collect_translatable_strings(h, data, exclude_keys) ==
  dfs(h, data, <<>>, exclude_keys)

PathsOf(pairs)   == [i \in 1..Len(pairs) |-> pairs[i].path]
StringsOf(pairs) == [i \in 1..Len(pairs) |-> pairs[i].s]

(***************************************************************************)
(* BaseTranslator._deep_copy: a fresh object for every dict and list, the  *)
(* scalars and strings shared.  Returns the grown heap and the new value.  *)
(***************************************************************************)
\* _deep_copy returning its argument: the slip C4_InputNotMutated is tested
\* against.
_deep_copy_alias(h, data) == [h |-> h, v |-> data]

\* _deep_copy copying the outermost object only: the slip
\* C5_NoAliasingUnlessNoPaths is tested against.
_deep_copy_shallow(h, data) ==
  IF data.tag = "ref"
  THEN [h |-> Append(h, h[data.n]), v |-> Ref(Len(h) + 1)]
  ELSE [h |-> h, v |-> data]

RECURSIVE _deep_copy(_, _), CopyItems(_, _, _, _)
_deep_copy(h, data) ==
  IF data.tag = "ref"
  THEN LET obj == h[data.n]
           r   == CopyItems(h, obj, 1, <<>>)
       IN  [h |-> Append(r.h, [kind |-> obj.kind, keys |-> obj.keys, vals |-> r.vals]),
            v |-> Ref(Len(r.h) + 1)]
  ELSE [h |-> h, v |-> data]

\* The comprehension over the items of one dict or list.
CopyItems(h, obj, i, acc) ==
  IF i > Len(obj.vals) THEN [h |-> h, vals |-> acc]
  ELSE LET c == _deep_copy(h, obj.vals[i])
       IN  CopyItems(c.h, obj, i + 1, Append(acc, c.v))

(***************************************************************************)
(* Python's subscription current[key] and assignment current[key] = text.  *)
(***************************************************************************)
KeyPos(obj, tok) == {j \in 1..Len(obj.keys) : obj.keys[j] = tok}

GetItem(h, current, tok) ==
  IF current.tag = "ref"
  THEN LET obj == h[current.n]
       IN  IF obj.kind = "dict"
           THEN IF KeyPos(obj, tok) = {}
                THEN [ok |-> FALSE, v |-> Null, err |-> "KeyError"]
                ELSE [ok |-> TRUE, v |-> obj.vals[CHOOSE j \in KeyPos(obj, tok) : TRUE],
                      err |-> ""]
           ELSE IF tok.t # "idx"
                THEN [ok |-> FALSE, v |-> Null, err |-> "TypeError"]
                ELSE IF tok.idx >= Len(obj.vals)
                     THEN [ok |-> FALSE, v |-> Null, err |-> "IndexError"]
                     ELSE [ok |-> TRUE, v |-> obj.vals[tok.idx + 1], err |-> ""]
  ELSE IF current.tag = "str"
  THEN IF tok.t # "idx"
       THEN [ok |-> FALSE, v |-> Null, err |-> "TypeError"]
       ELSE IF tok.idx >= Len(current.s)
            THEN [ok |-> FALSE, v |-> Null, err |-> "IndexError"]
            ELSE [ok |-> TRUE, v |-> Str(<<current.s[tok.idx + 1]>>), err |-> ""]
  ELSE [ok |-> FALSE, v |-> Null, err |-> "TypeError"]

\* Assignment into a dict adds the key when it is missing.
SetItem(h, current, tok, text) ==
  IF current.tag = "ref"
  THEN LET obj == h[current.n]
       IN  IF obj.kind = "dict"
           THEN IF KeyPos(obj, tok) = {}
                THEN [ok |-> TRUE, err |-> "",
                      h |-> [h EXCEPT ![current.n] =
                               DictObj(Append(obj.keys, tok), Append(obj.vals, Str(text)))]]
                ELSE [ok |-> TRUE, err |-> "",
                      h |-> [h EXCEPT ![current.n].vals[CHOOSE j \in KeyPos(obj, tok) : TRUE] =
                               Str(text)]]
           ELSE IF tok.t # "idx"
                THEN [ok |-> FALSE, err |-> "TypeError", h |-> h]
                ELSE IF tok.idx >= Len(obj.vals)
                     THEN [ok |-> FALSE, err |-> "IndexError", h |-> h]
                     ELSE [ok |-> TRUE, err |-> "",
                           h |-> [h EXCEPT ![current.n].vals[tok.idx + 1] = Str(text)]]
  ELSE [ok |-> FALSE, err |-> "TypeError", h |-> h]

(***************************************************************************)
(* BaseTranslator._reconstruct_data.                                       *)
(***************************************************************************)
\* The outcome of a call: a returned value or a raised exception, with the
\* heap it leaves.
Returned(h, v) == [status |-> "ok",    h |-> h, v |-> v,    err |-> ""]
Raised(h, err) == [status |-> "raise", h |-> h, v |-> Null, err |-> err]

\* dict(zip(map(tuple, paths), translated_strings)): zip stops at the shorter
\* list; a repeated path keeps its first position and takes the last text.
RECURSIVE DictOfZip(_, _, _, _)
DictOfZip(paths, translated_strings, i, acc) ==
  IF i > Len(paths) \/ i > Len(translated_strings) THEN acc
  ELSE LET hit == {j \in 1..Len(acc) : acc[j].path = paths[i]}
           e   == [path |-> paths[i], text |-> translated_strings[i]]
       IN  IF hit = {}
           THEN DictOfZip(paths, translated_strings, i + 1, Append(acc, e))
           ELSE DictOfZip(paths, translated_strings, i + 1,
                          [j \in 1..Len(acc) |-> IF j \in hit THEN e ELSE acc[j]])

\* for key in path[:-1]: current = current[key]
RECURSIVE DescendPath(_, _, _, _)
DescendPath(h, current, path, i) ==
  IF i >= Len(path) THEN [ok |-> TRUE, v |-> current, err |-> ""]
  ELSE LET g == GetItem(h, current, path[i])
       IN  IF g.ok THEN DescendPath(h, g.v, path, i + 1) ELSE g

\* OverwriteLeaf assigning at the first token of the path instead of the
\* last: the slip C1_ShapePreservedExceptBareString is tested against.
OverwriteLeafAtFirstToken(h, result, path, translated_text) ==
  LET d == DescendPath(h, result, path, 1)
  IN  IF ~d.ok THEN [ok |-> FALSE, err |-> d.err, h |-> h]
      ELSE IF path = <<>> THEN [ok |-> FALSE, err |-> "IndexError", h |-> h]
      ELSE SetItem(h, d.v, path[1], translated_text)

\* One iteration of the loop over translations.items(): the descent, then
\* current[path[-1]] = translated_text (path[-1] of the empty path raises).
OverwriteLeaf(h, result, path, translated_text) ==
  LET d == DescendPath(h, result, path, 1)
  IN  IF ~d.ok THEN [ok |-> FALSE, err |-> d.err, h |-> h]
      ELSE IF path = <<>> THEN [ok |-> FALSE, err |-> "IndexError", h |-> h]
      ELSE SetItem(h, d.v, path[Len(path)], translated_text)

RECURSIVE OverwriteAll(_, _, _, _)
OverwriteAll(h, result, translations, i) ==
  IF i > Len(translations) THEN Returned(h, result)
  ELSE LET w == OverwriteLeaf(h, result, translations[i].path, translations[i].text)
       IN  IF w.ok THEN OverwriteAll(w.h, result, translations, i + 1)
           ELSE Raised(w.h, w.err)

_reconstruct_data(h, original_data, translated_strings, paths) ==
  IF paths = <<>> THEN Returned(h, original_data)
  ELSE LET c == _deep_copy(h, original_data)
       IN  OverwriteAll(c.h, c.v, DictOfZip(paths, translated_strings, 1, <<>>), 1)

(***************************************************************************)
(* String operations the glossary step uses.                               *)
(***************************************************************************)
\* str.lower() of one character and of a string.
LowerChar(c) == IF c = "A" THEN "a" ELSE IF c = "S" THEN "s" ELSE c
RECURSIVE lower(_)
lower(text) ==
  IF text = <<>> THEN <<>>
  ELSE (IF Head(text) = DottedI THEN <<"i", CombiningDot>> ELSE <<LowerChar(Head(text))>>)
       \o lower(Tail(text))

\* str.strip(): leading and trailing whitespace removed.
RECURSIVE lstrip(_), rstrip(_)
lstrip(text) ==
  IF text # <<>> /\ IsSpaceChar(Head(text)) THEN lstrip(Tail(text)) ELSE text
rstrip(text) ==
  IF text # <<>> /\ IsSpaceChar(text[Len(text)])
  THEN rstrip(SubSeq(text, 1, Len(text) - 1)) ELSE text
strip(text) == rstrip(lstrip(text))

\* ' '.join(text.split()): every whitespace run becomes one space, none is
\* left at either end.
RECURSIVE JoinSplit(_, _, _)
JoinSplit(text, i, acc) ==
  IF i > Len(text) THEN acc
  ELSE IF IsSpaceChar(text[i]) THEN JoinSplit(text, i + 1, acc)
  ELSE IF i > 1 /\ IsSpaceChar(text[i - 1]) /\ acc # <<>>
       THEN JoinSplit(text, i + 1, acc \o <<" ", text[i]>>)
       ELSE JoinSplit(text, i + 1, Append(acc, text[i]))
NormalizeWhitespace(text) == JoinSplit(text, 1, <<>>)

(***************************************************************************)
(* The glossary: the term_pairs handed to the constructor, each with a     *)
(* source-language and a target-language term.                             *)
(***************************************************************************)
TermPair(source, target) == [source |-> source, target |-> target]

\* A glossary with a phrase holding a double space, two sources that differ
\* in case only, a pair whose source is blank and one whose target is blank,
\* and two sources that differ in case only and in length.
term_pairs ==
  << TermPair(<<"A">>, <<"x">>),
     TermPair(<<"a", " ", " ", "A">>, <<"y">>),
     TermPair(<<" ">>, <<"z">>),
     TermPair(<<"!">>, <<" ">>),
     TermPair(<<"a">>, <<"w">>),
     TermPair(<<DottedI>>, <<"p">>),
     TermPair(<<"i", CombiningDot>>, <<"q">>) >>

(***************************************************************************)
(* BaseTranslator.__init__ and _compile_patterns.  The instance keeps the  *)
(* compiled pattern (its alternatives in order; none when nothing was      *)
(* compiled), the term mapping and the case mapping.                       *)
(***************************************************************************)
\* The loop that strips, filters and normalizes the pairs.
RECURSIVE ValidTerms(_, _)
ValidTerms(pairs, i) ==
  IF i > Len(pairs) THEN <<>>
  ELSE LET source == strip(pairs[i].source)
           target == strip(pairs[i].target)
       IN  IF source = <<>> \/ target = <<>>
           THEN ValidTerms(pairs, i + 1)
           ELSE << TermPair(NormalizeWhitespace(source), NormalizeWhitespace(target)) >>
                \o ValidTerms(pairs, i + 1)

\* list.sort(key=len(source), reverse=True): longest first, and stable, so
\* terms of equal length keep their loaded order.
RECURSIVE InsertByLength(_, _), SortByLength(_)
InsertByLength(sorted, e) ==
  IF sorted = <<>> THEN <<e>>
  ELSE IF Len(Head(sorted).source) >= Len(e.source)
       THEN <<Head(sorted)>> \o InsertByLength(Tail(sorted), e)
       ELSE <<e>> \o sorted
SortByLength(terms) ==
  IF terms = <<>> THEN <<>>
  ELSE InsertByLength(SortByLength(SubSeq(terms, 1, Len(terms) - 1)), terms[Len(terms)])

\* The entry a dict filled in list order ends with for key k: the last one.
LastWithKey(valid_terms, k) ==
  CHOOSE i \in 1..Len(valid_terms) :
    /\ lower(valid_terms[i].source) = k
    /\ \A j \in (i + 1)..Len(valid_terms) : lower(valid_terms[j].source) # k

\* The instance when nothing is compiled (no term_pairs, or none valid).
NoPatterns == [_compiled_pattern |-> <<>>, _term_mapping |-> <<>>, _case_mapping |-> <<>>]

\* The alphabet holds no backslash and no regex metacharacter, so the
\* escaping of a source changes nothing and every alternative is the source.
_compile_patterns(pairs) ==
  LET valid_terms == SortByLength(ValidTerms(pairs, 1))
      keys        == {lower(valid_terms[i].source) : i \in 1..Len(valid_terms)}
  IN  IF pairs = <<>> \/ valid_terms = <<>> THEN NoPatterns
      ELSE [_compiled_pattern |-> [i \in 1..Len(valid_terms) |-> valid_terms[i].source],
            _term_mapping |-> [k \in keys |-> valid_terms[LastWithKey(valid_terms, k)].target],
            _case_mapping |-> [k \in keys |-> valid_terms[LastWithKey(valid_terms, k)].source]]

\* BaseTranslator.__init__: the instance keeps batch_size and what
\* _compile_patterns derives from term_pairs.
BaseTranslator(batch_size, pairs) ==
  LET compiled == _compile_patterns(pairs)
  IN  [batch_size        |-> batch_size,
       _compiled_pattern |-> compiled._compiled_pattern,
       _term_mapping     |-> compiled._term_mapping,
       _case_mapping     |-> compiled._case_mapping]

\* The batch_size arguments tried: the default and the smallest.
BatchSizes == {4, 1}

(***************************************************************************)
(* BaseTranslator._add_paired_translations: one pass of                    *)
(*   (?:(?<=\s)|^)(?:part1|part2|...)(?=\s|$)   with re.IGNORECASE.        *)
(***************************************************************************)
\* re.IGNORECASE compares characters by their case folding, which for the
\* long s is "s" although its str.lower() is itself, and for the dotted
\* capital I is "i".
CaseFold(c) == IF c = LongS THEN "s" ELSE IF c = DottedI THEN "i" ELSE LowerChar(c)

\* Alternative `part` matches text at position p, ignoring case.
PartMatches(part, text, p) ==
  /\ p + Len(part) - 1 <= Len(text)
  /\ \A j \in 1..Len(part) : CaseFold(text[p + j - 1]) = CaseFold(part[j])

\* (?:(?<=\s)|^) at position p and (?=\s|$) at position e.
LookBehind(text, p) == p = 1 \/ IsSpaceChar(text[p - 1])
LookAhead(text, e)  == e > Len(text) \/ IsSpaceChar(text[e])

\* The alternatives that give a match at p; the regex takes the first.
MatchesAt(parts, text, p) ==
  {k \in 1..Len(parts) :
     /\ LookBehind(text, p)
     /\ PartMatches(parts[k], text, p)
     /\ LookAhead(text, p + Len(parts[k]))}

Least(S) == CHOOSE k \in S : \A k2 \in S : k <= k2

replace_match(self, term) ==
  LET lookup_term == lower(strip(term))
  IN  IF lookup_term \in DOMAIN self._term_mapping /\ self._term_mapping[lookup_term] # <<>>
      THEN self._case_mapping[lookup_term] \o <<" ", "(">>
           \o self._term_mapping[lookup_term] \o <<")">>
      ELSE term

\* \b at position p: exactly one of text[p - 1] and text[p] is a word
\* character (a letter, a digit or an underscore).
IsWordChar(c) == c \in {"a", "A", "s", "S", LongS, "i", DottedI, "1"}
WordBoundary(text, p) ==
  (p > 1 /\ IsWordChar(text[p - 1])) # (p <= Len(text) /\ IsWordChar(text[p]))

\* The alternatives of \b(part1|part2|...)\b that give a match at p.
WordMatchesAt(parts, text, p) ==
  {k \in 1..Len(parts) :
     /\ WordBoundary(text, p)
     /\ PartMatches(parts[k], text, p)
     /\ WordBoundary(text, p + Len(parts[k]))}

\* The two shapes of pattern: lookarounds for whitespace, or \b.
HitsAt(kind, parts, text, p) ==
  IF kind = "\\b" THEN WordMatchesAt(parts, text, p) ELSE MatchesAt(parts, text, p)

\* A matched span: text[start .. end - 1].
Span(start, end) == [start |-> start, end |-> end]

\* A scan that looks for the next match one character after the start of
\* the previous one: the slip C16_MatchesDoNotOverlap is tested against.
RECURSIVE finditerOverlapping(_, _, _, _)
finditerOverlapping(kind, parts, text, p) ==
  IF p > Len(text) THEN <<>>
  ELSE LET hits == HitsAt(kind, parts, text, p)
       IN  IF hits = {} THEN finditerOverlapping(kind, parts, text, p + 1)
           ELSE <<Span(p, p + Len(parts[Least(hits)]))>>
                \o finditerOverlapping(kind, parts, text, p + 1)

\* The matches of one pass over text from position p: the leftmost match,
\* then the leftmost match after its end, and so on.  No alternative of a
\* pattern built here is empty, so every match has at least one character.
RECURSIVE finditer(_, _, _, _)
finditer(kind, parts, text, p) ==
  IF p > Len(text) THEN <<>>
  ELSE LET hits == HitsAt(kind, parts, text, p)
       IN  IF hits = {} THEN finditer(kind, parts, text, p + 1)
           ELSE LET e == p + Len(parts[Least(hits)])
                IN  <<Span(p, e)>> \o finditer(kind, parts, text, e)

\* pattern.sub(replace_match, text): the text between the matches is kept
\* and every match is replaced by what replace_match returns for it.
RECURSIVE SubMatches(_, _, _, _, _)
SubMatches(self, text, matches, i, p) ==
  IF i > Len(matches) THEN SubSeq(text, p, Len(text))
  ELSE SubSeq(text, p, matches[i].start - 1)
       \o replace_match(self, SubSeq(text, matches[i].start, matches[i].end - 1))
       \o SubMatches(self, text, matches, i + 1, matches[i].end)

PatternSub(self, text, p) ==
  SubMatches(self, text, finditer("lookaround", self._compiled_pattern, text, p), 1, p)

_add_paired_translations(self, text) ==
  IF self._compiled_pattern = <<>> \/ DOMAIN self._term_mapping = {} THEN text
  ELSE PatternSub(self, text, 1)

(***************************************************************************)
(* markdown_to_chunks and chunks_to_markdown.                              *)
(***************************************************************************)
\* Longest markdown text tried in full (every string over MdChars up to it).
MaxMdLen == 4

\* The alphabet of the markdown texts: the marker characters, a digit, a
\* dot, an asterisk, a space, a newline and a letter.
MdChars == {"#", "-", "+", "1", ".", "*", " ", "\n", "a"}

RECURSIVE MdStringsUpTo(_)
MdStringsUpTo(n) ==
  IF n = 0 THEN {<<>>}
  ELSE LET S == MdStringsUpTo(n - 1)
       IN  S \cup {Append(s, c) : s \in {t \in S : Len(t) = n - 1}, c \in MdChars}

\* The end of the run of characters of S that starts at p (p itself when
\* text[p] is not in S).
RunEnd(text, p, S) ==
  Least({j \in p..(Len(text) + 1) : j = Len(text) + 1 \/ text[j] \notin S})

\* ^ with re.MULTILINE: the start of the text or just after a newline.
LineStart(text, p) == p = 1 \/ text[p - 1] = "\n"

\* \s*(?:#{1,6}|\-|\+|\d+\.)\s+ tried at p: the position after the match,
\* or 0 when there is none.  Every repetition is greedy and none can give
\* anything back: the character after a run is never one the next item of
\* the pattern accepts.
MarkerEnd(text, p) ==
  LET q  == RunEnd(text, p, {" ", "\n"})
      h  == RunEnd(text, q, {"#"})
      d  == RunEnd(text, q, {"1"})
      m  == IF q > Len(text) THEN 0
            ELSE IF text[q] = "#" THEN (IF h - q <= 6 THEN h ELSE 0)
            ELSE IF text[q] \in {"-", "+"} THEN q + 1
            ELSE IF d > q /\ d <= Len(text) /\ text[d] = "." THEN d + 1
            ELSE 0
      e  == IF m = 0 THEN 0 ELSE RunEnd(text, m, {" ", "\n"})
  IN  IF m # 0 /\ e > m THEN e ELSE 0

\* re.split(pattern, text, flags=re.MULTILINE) with the one capture group:
\* the text before each match and the match, then the rest.  p is the
\* position the search has reached, last the start of the pending text.
RECURSIVE re_split(_, _, _)
re_split(text, p, last) ==
  IF p > Len(text) THEN <<SubSeq(text, last, Len(text))>>
  ELSE IF LineStart(text, p) /\ MarkerEnd(text, p) # 0
       THEN LET e == MarkerEnd(text, p)
            IN  <<SubSeq(text, last, p - 1), SubSeq(text, p, e - 1)>> \o re_split(text, e, e)
       ELSE re_split(text, p + 1, last)

\* re.match(r'^\s*(?:#{1,6}|\-|\+|\d+\.)\s+$', part)
IsMarker(part) == MarkerEnd(part, 1) = Len(part) + 1

\* The chunk of a prose part without its 'end': the slip
\* C19_MarkdownRoundTrip is tested against.
ProseChunkNoEnd(part) == [start |-> <<>>, text |-> strip(part), end |-> <<>>]

\* {'start': '', 'text': part.strip(), 'end': '\n' if part.endswith('\n') else ''}
ProseChunk(part) ==
  [start |-> <<>>, text |-> strip(part),
   end |-> IF part[Len(part)] = "\n" THEN <<"\n">> ELSE <<>>]

\* {'start': part, 'text': '', 'end': ''}
MarkerChunk(part) == [start |-> part, text |-> <<>>, end |-> <<>>]

\* The loop over the parts: empty parts are skipped.
RECURSIVE ChunksOf(_, _)
ChunksOf(parts, i) ==
  IF i > Len(parts) THEN <<>>
  ELSE IF parts[i] = <<>> THEN ChunksOf(parts, i + 1)
  ELSE <<IF IsMarker(parts[i]) THEN MarkerChunk(parts[i]) ELSE ProseChunk(parts[i])>>
       \o ChunksOf(parts, i + 1)

markdown_to_chunks(text) == ChunksOf(re_split(text, 1, 1), 1)

\* The join without the 'start' of the chunks: the slip
\* C20_MarkersSurvive is tested against.
RECURSIVE chunks_to_markdown_bodies(_)
chunks_to_markdown_bodies(cs) ==
  IF cs = <<>> THEN <<>>
  ELSE Head(cs).text \o Head(cs).end \o chunks_to_markdown_bodies(Tail(cs))

\* ''.join(f"{c['start']}{c['text']}{c['end']}" for c in chunks)
RECURSIVE chunks_to_markdown(_)
chunks_to_markdown(cs) ==
  IF cs = <<>> THEN <<>>
  ELSE Head(cs).start \o Head(cs).text \o Head(cs).end \o chunks_to_markdown(Tail(cs))

(***************************************************************************)
(* src/agents/tools/terms.py: the glossary loaded at import, the index and *)
(* the pattern built from it, and normalize_text_with_glossary.            *)
(* A term pair is kept as its en and gu fields (source and target).        *)
(***************************************************************************)
\* A glossary with two entries that differ in case only, a phrase that
\* starts with another entry, and a blank entry.
PhraseGlossary ==
  << TermPair(<<"A">>, <<"x">>),
     TermPair(<<"a", " ", "A">>, <<"y">>),
     TermPair(<<" ">>, <<"z">>),
     TermPair(<<"a">>, <<"w">>) >>

\* A glossary whose one entry ends with a space.
PaddedGlossary == << TermPair(<<"a", " ">>, <<"z">>) >>

\* A glossary none of whose entries has whitespace at either end.
PlainGlossary ==
  << TermPair(<<"A">>, <<"x">>),
     TermPair(<<"a", " ", "A">>, <<"y">>),
     TermPair(<<"a">>, <<"w">>),
     TermPair(<<"s">>, <<"v">>) >>

\* The glossary files tried.
Glossaries == {PhraseGlossary, PaddedGlossary, PlainGlossary}

\* The keys of a dict filled in list order: each key where it first appears.
RECURSIVE FirstKeys(_, _, _)
FirstKeys(pairs, i, acc) ==
  IF i > Len(pairs) THEN acc
  ELSE IF \E j \in 1..Len(acc) : acc[j] = lower(pairs[i].source)
       THEN FirstKeys(pairs, i + 1, acc)
       ELSE FirstKeys(pairs, i + 1, Append(acc, lower(pairs[i].source)))

\* EN_INDEX = {tp.en.lower(): tp for tp in TERM_PAIRS}, read for its gu.
EN_INDEX(TERM_PAIRS) ==
  [k \in {lower(TERM_PAIRS[i].source) : i \in 1..Len(TERM_PAIRS)} |->
     TERM_PAIRS[LastWithKey(TERM_PAIRS, k)].target]

\* EN_TERMS = list(EN_INDEX.keys())
EN_TERMS(TERM_PAIRS) == FirstKeys(TERM_PAIRS, 1, <<>>)

\* The alternatives in the order the terms were loaded: the slip
\* C15_LongestMatchWins is tested against.
build_glossary_pattern_unsorted(terms) == terms

\* build_glossary_pattern: the alternatives of \b(...)\b, longest first
\* (sorted is stable); escaping changes nothing for this alphabet.
build_glossary_pattern(terms) ==
  LET sorted_terms == SortByLength([i \in 1..Len(terms) |-> TermPair(terms[i], <<>>)])
  IN  [i \in 1..Len(sorted_terms) |-> sorted_terms[i].source]

\* The module's globals once it is imported with a glossary file.
TermsModule(TERM_PAIRS) ==
  [TERM_PAIRS       |-> TERM_PAIRS,
   EN_INDEX         |-> EN_INDEX(TERM_PAIRS),
   EN_TERMS         |-> EN_TERMS(TERM_PAIRS),
   GLOSSARY_PATTERN |-> build_glossary_pattern(EN_TERMS(TERM_PAIRS))]

\* The globals before any glossary is loaded.
NoGlossary ==
  [TERM_PAIRS |-> <<>>, EN_INDEX |-> <<>>, EN_TERMS |-> <<>>, GLOSSARY_PATTERN |-> <<>>]

\* The default of normalize_text_with_glossary's threshold argument.
threshold == 97

\* rapidfuzz's answer to a query is not decided by this program: the best
\* scoring term of EN_TERMS and its score, on a scale of 0 to 100.
Scores == {0, threshold - 1, threshold, 100}
FuzzyAnswers(terms) ==
  {[match_term |-> terms[i], score |-> sc] : i \in 1..Len(terms), sc \in Scores}

\* extractOne with the boundary excluded: the slip C17_ThresholdInclusive
\* is tested against.
extractOneAbove(answer, score_cutoff) ==
  IF answer.score > score_cutoff
  THEN [found |-> TRUE, match_term |-> answer.match_term, score |-> answer.score]
  ELSE [found |-> FALSE, match_term |-> <<>>, score |-> 0]

\* process.extractOne(lw, EN_TERMS, score_cutoff=threshold) or (None, 0, None):
\* the best term when its score is not below score_cutoff, else nothing.
extractOne(answer, score_cutoff) ==
  IF answer.score >= score_cutoff
  THEN [found |-> TRUE, match_term |-> answer.match_term, score |-> answer.score]
  ELSE [found |-> FALSE, match_term |-> <<>>, score |-> 0]

\* The term a match is resolved to: by the exact lookup, else by the fuzzy
\* search, else none.
Resolve(G, lw, score_cutoff, answer) ==
  IF lw \in DOMAIN G.EN_INDEX
  THEN [hit |-> TRUE, by |-> "exact", gujarati |-> G.EN_INDEX[lw]]
  ELSE LET found == extractOne(answer, score_cutoff)
       IN  IF ~found.found \/ found.match_term = <<>>
           THEN [hit |-> FALSE, by |-> "none", gujarati |-> <<>>]
           ELSE [hit |-> TRUE, by |-> "fuzzy", gujarati |-> G.EN_INDEX[found.match_term]]

\* replacer looking the matched word up as it is written, not lowercased:
\* the slip C29_FuzzyUnreachable is tested against.
replacerCased(G, text, match, score_cutoff, answer) ==
  LET word == SubSeq(text, match.start, match.end - 1)
      lw   == strip(word)
      r    == Resolve(G, lw, score_cutoff, answer)
  IN  IF ~r.hit THEN word
      ELSE IF match.end <= Len(text) /\ isalnum(text[match.end])
           THEN word \o <<" ", "[">> \o r.gujarati \o <<"]", " ">>
           ELSE word \o <<" ", "[">> \o r.gujarati \o <<"]">>

\* replacer(match): match.end() is the position after the match.
replacer(G, text, match, score_cutoff, answer) ==
  LET word == SubSeq(text, match.start, match.end - 1)
      lw   == strip(lower(word))
      r    == Resolve(G, lw, score_cutoff, answer)
  IN  IF ~r.hit THEN word
      ELSE IF match.end <= Len(text) /\ isalnum(text[match.end])
           THEN word \o <<" ", "[">> \o r.gujarati \o <<"]", " ">>
           ELSE word \o <<" ", "[">> \o r.gujarati \o <<"]">>

\* GLOSSARY_PATTERN.sub(replacer, text)
RECURSIVE SubReplacer(_, _, _, _, _, _, _)
SubReplacer(G, text, matches, i, p, score_cutoff, answer) ==
  IF i > Len(matches) THEN SubSeq(text, p, Len(text))
  ELSE SubSeq(text, p, matches[i].start - 1)
       \o replacer(G, text, matches[i], score_cutoff, answer)
       \o SubReplacer(G, text, matches, i + 1, matches[i].end, score_cutoff, answer)

normalize_text_with_glossary(G, text, score_cutoff, answer) ==
  SubReplacer(G, text, finditer("\\b", G.GLOSSARY_PATTERN, text, 1), 1, 1,
              score_cutoff, answer)

\* Some match of the pass over text finds no exact entry, so the fuzzy
\* search is asked.
AsksFuzzy(G, text) ==
  LET matches == finditer("\\b", G.GLOSSARY_PATTERN, text, 1)
  IN  \E i \in 1..Len(matches) :
        strip(lower(SubSeq(text, matches[i].start, matches[i].end - 1)))
          \notin DOMAIN G.EN_INDEX

(***************************************************************************)
(* The remote translation services.  A request carries the list of texts;  *)
(* the answer is a status and a list of output items.  What the service    *)
(* answers is not decided by this program: besides the faithful answer     *)
(* (one output per input, in order) it may fail, or answer with fewer or   *)
(* more items than it was sent.                                            *)
(***************************************************************************)
\* The service's translation of one text.
Translation(text) == <<"#">> \o text

Faithful(texts) == [i \in 1..Len(texts) |-> Translation(texts[i])]

RespModes == {"faithful", "error", "fewer", "more"}

\* The answer: its status code, its raw body text (kept for a failure only)
\* and the output items of its body.
Response(texts, mode) ==
  CASE mode = "error" -> [status |-> 500, text |-> "boom", output |-> <<>>]
    [] mode = "fewer" -> [status |-> 200, text |-> "",
                          output |-> SubSeq(Faithful(texts), 1, Len(texts) - 1)]
    [] mode = "more"  -> [status |-> 200, text |-> "",
                          output |-> Append(Faithful(texts), Translation(<<>>))]
    [] OTHER          -> [status |-> 200, text |-> "", output |-> Faithful(texts)]

Backends == {"bhashini", "google"}

\* What a raised exception carries: the status code and the raw text of the
\* answer it reports, or nothing of the kind.
ErrorArgs(status_code, text) == [status_code |-> status_code, text |-> text]
NoArgs == [status_code |-> 0, text |-> ""]

\* The outcome of translate_texts: the list returned or the exception
\* raised, and the requests it sent to the service.
TextsReturned(out, requests) ==
  [status |-> "ok", out |-> out, err |-> "", args |-> NoArgs, requests |-> requests]
TextsRaised(err, args, requests) ==
  [status |-> "raise", out |-> <<>>, err |-> err, args |-> args, requests |-> requests]

\* translate_texts without the status test: the slip C11_FailureRaises is
\* tested against.
BhashiniTranslateTextsUnchecked(texts, mode) ==
  TextsReturned(Response(texts, mode).output, <<texts>>)

(***************************************************************************)
(* BhashiniTranslator.translate_texts: builds the payload from texts,      *)
(* posts it, raises on a status other than 200, and returns the target of  *)
(* every output item of the response.                                      *)
(* The body of a 200 answer is taken to be JSON of the expected layout.   *)
(***************************************************************************)
BhashiniTranslateTexts(texts, mode) ==
  LET response == Response(texts, mode)
  IN  IF response.status # 200
      THEN TextsRaised("Exception", ErrorArgs(response.status, response.text), <<texts>>)
      ELSE TextsReturned(response.output, <<texts>>)

(***************************************************************************)
(* GoogleTranslator.translate_texts: calls client.translate(texts) (which  *)
(* raises when the service fails, its error built from the answer's status *)
(* code and text), raises when the results are empty, and returns the      *)
(* translatedText of every result.                                         *)
(***************************************************************************)
GoogleTranslateTexts(texts, mode) ==
  LET response == Response(texts, mode)
  IN  IF response.status # 200
      THEN TextsRaised("ClientError", ErrorArgs(response.status, response.text), <<texts>>)
      ELSE IF response.output = <<>>
           THEN TextsRaised("Exception", NoArgs, <<texts>>)
           ELSE TextsReturned(response.output, <<texts>>)

\* self.translate_texts, dispatched on the translator's class.
translate_texts(backend, texts, mode) ==
  IF backend = "bhashini" THEN BhashiniTranslateTexts(texts, mode)
  ELSE GoogleTranslateTexts(texts, mode)

(***************************************************************************)
(* BaseTranslator.translate.                                               *)
(***************************************************************************)
CallReturned(h, v, requests) ==
  [status |-> "ok", h |-> h, v |-> v, err |-> "", args |-> NoArgs, requests |-> requests]
CallRaised(h, err, args, requests) ==
  [status |-> "raise", h |-> h, v |-> Null, err |-> err, args |-> args,
   requests |-> requests]

\* The string branch without the _should_translate_string test: the slip
\* C6_NoLeavesNoCalls is tested against.
TranslateStringUnchecked(self, h, data, exclude_keys, use_term_pairs, backend, mode) ==
  IF exclude_keys = {}
  THEN LET text == IF use_term_pairs THEN _add_paired_translations(self, data.s) ELSE data.s
           r    == translate_texts(backend, <<text>>, mode)
       IN  IF r.status = "raise" THEN CallRaised(h, r.err, r.args, r.requests)
           ELSE IF r.out = <<>> THEN CallRaised(h, "IndexError", NoArgs, r.requests)
           ELSE CallReturned(h, Str(r.out[1]), r.requests)
  ELSE CallReturned(h, data, <<>>)

\* The branch for a bare string: translate_texts([text])[0].
TranslateString(self, h, data, exclude_keys, use_term_pairs, backend, mode) ==
  IF exclude_keys = {} /\ _should_translate_string(data.s)
  THEN LET text == IF use_term_pairs THEN _add_paired_translations(self, data.s) ELSE data.s
           r    == translate_texts(backend, <<text>>, mode)
       IN  IF r.status = "raise" THEN CallRaised(h, r.err, r.args, r.requests)
           ELSE IF r.out = <<>> THEN CallRaised(h, "IndexError", NoArgs, r.requests)
           ELSE CallReturned(h, Str(r.out[1]), r.requests)
  ELSE CallReturned(h, data, <<>>)

\* The tree branch with a second attempt after a failed translate_texts: the
\* slip C12_NoRetry is tested against.
TranslateTreeRetrying(self, h, data, exclude_keys, use_term_pairs, backend, mode) ==
  LET paths_and_strings == _collect_translatable_strings(h, data, exclude_keys)
  IN  IF paths_and_strings = <<>> THEN CallReturned(h, data, <<>>)
      ELSE LET paths   == PathsOf(paths_and_strings)
               strings == StringsOf(paths_and_strings)
               r1      == translate_texts(backend, strings, mode)
               r2      == translate_texts(backend, strings, mode)
               r       == IF r1.status = "raise"
                          THEN [r2 EXCEPT !.requests = r1.requests \o r2.requests]
                          ELSE r1
           IN  IF r.status = "raise" THEN CallRaised(h, r.err, r.args, r.requests)
               ELSE LET rec == _reconstruct_data(h, data, r.out, paths)
                    IN  IF rec.status = "raise"
                        THEN CallRaised(rec.h, rec.err, NoArgs, r.requests)
                        ELSE CallReturned(rec.h, rec.v, r.requests)

\* The tree branch with the length of the answer compared with the number
\* of strings sent: the slip C26_MismatchIsSilentForTrees is tested against.
TranslateTreeChecked(self, h, data, exclude_keys, use_term_pairs, backend, mode) ==
  LET paths_and_strings == _collect_translatable_strings(h, data, exclude_keys)
  IN  IF paths_and_strings = <<>> THEN CallReturned(h, data, <<>>)
      ELSE LET paths   == PathsOf(paths_and_strings)
               strings == IF use_term_pairs
                          THEN [i \in 1..Len(paths_and_strings) |->
                                  _add_paired_translations(self, paths_and_strings[i].s)]
                          ELSE StringsOf(paths_and_strings)
               r       == translate_texts(backend, strings, mode)
           IN  IF r.status = "raise" THEN CallRaised(h, r.err, r.args, r.requests)
               ELSE IF Len(r.out) # Len(paths)
                    THEN CallRaised(h, "ValueError", NoArgs, r.requests)
               ELSE LET rec == _reconstruct_data(h, data, r.out, paths)
                    IN  IF rec.status = "raise"
                        THEN CallRaised(rec.h, rec.err, NoArgs, r.requests)
                        ELSE CallReturned(rec.h, rec.v, r.requests)

\* The branch for every other value: collect, annotate, translate, rebuild.
TranslateTree(self, h, data, exclude_keys, use_term_pairs, backend, mode) ==
  LET paths_and_strings == _collect_translatable_strings(h, data, exclude_keys)
  IN  IF paths_and_strings = <<>> THEN CallReturned(h, data, <<>>)
      ELSE LET paths   == PathsOf(paths_and_strings)
               strings == IF use_term_pairs
                          THEN [i \in 1..Len(paths_and_strings) |->
                                  _add_paired_translations(self, paths_and_strings[i].s)]
                          ELSE StringsOf(paths_and_strings)
               r       == translate_texts(backend, strings, mode)
           IN  IF r.status = "raise" THEN CallRaised(h, r.err, r.args, r.requests)
               ELSE LET rec == _reconstruct_data(h, data, r.out, paths)
                    IN  IF rec.status = "raise"
                        THEN CallRaised(rec.h, rec.err, NoArgs, r.requests)
                        ELSE CallReturned(rec.h, rec.v, r.requests)

translate(self, h, data, exclude_keys, use_term_pairs, backend, mode) ==
  IF data.tag = "str"
  THEN TranslateString(self, h, data, exclude_keys, use_term_pairs, backend, mode)
  ELSE TranslateTree(self, h, data, exclude_keys, use_term_pairs, backend, mode)

(***************************************************************************)
(* The inputs a caller may hand over: bare values and small trees.         *)
(***************************************************************************)
\* Leaves of the trees: empty, translatable, mixed, blank and
\* punctuation-only strings, a number and null.
LeafPool ==
  {Str(<<>>), Str(<<"a">>), Str(<<"A", "!">>), Str(<<" ">>), Str(<<"!">>), Num(7), Null}

\* Texts with an "s" in its three forms.
LongSTexts == {<<"s">>, <<"S">>, <<LongS>>, <<LongS, " ", "a">>}

\* A bare string, number or null.
BareInputs ==
  {[heap |-> <<>>, data |-> Str(s)] : s \in StringsUpTo(MaxStrLen) \cup LongSTexts}
  \cup {[heap |-> <<>>, data |-> Num(7)], [heap |-> <<>>, data |-> Null]}

\* {} and [].
EmptyInputs ==
  {[heap |-> <<DictObj(<<>>, <<>>)>>, data |-> Ref(1)],
   [heap |-> <<ListObj(<<>>)>>, data |-> Ref(1)]}

\* {"a": v1, "secret": {"b": v2}}
SecretInputs ==
  {[heap |-> << DictObj(<<Key("b")>>, <<v2>>),
                DictObj(<<Key("a"), Key("secret")>>, <<v1, Ref(1)>>) >>,
    data |-> Ref(2)] : v1 \in LeafPool, v2 \in LeafPool}

\* [{"b": v1}, v2]
ListInputs ==
  {[heap |-> << DictObj(<<Key("b")>>, <<v1>>), ListObj(<<Ref(1), v2>>) >>,
    data |-> Ref(2)] : v1 \in LeafPool, v2 \in LeafPool}

\* {"0": v1, "c": [v2]}
ZeroKeyInputs ==
  {[heap |-> << ListObj(<<v2>>),
                DictObj(<<Key("0"), Key("c")>>, <<v1, Ref(1)>>) >>,
    data |-> Ref(2)] : v1 \in LeafPool, v2 \in LeafPool}

Inputs == BareInputs \cup EmptyInputs \cup SecretInputs \cup ListInputs \cup ZeroKeyInputs

\* The exclude_keys arguments tried (the empty set stands for None too).
ExcludeSets == { {}, {"secret"}, {"0"}, {"a", "b"} }

\* Every string leaf of a value, in traversal order, whatever it holds.
RECURSIVE StringLeaves(_, _), StringLeavesOfItems(_, _, _)
StringLeaves(h, v) ==
  IF v.tag = "str" THEN <<v.s>>
  ELSE IF v.tag = "ref" THEN StringLeavesOfItems(h, h[v.n], 1)
  ELSE <<>>
StringLeavesOfItems(h, obj, i) ==
  IF i > Len(obj.vals) THEN <<>>
  ELSE StringLeaves(h, obj.vals[i]) \o StringLeavesOfItems(h, obj, i + 1)

(***************************************************************************)
(* The state: the caller's heap and arguments, and what the last call      *)
(* returned, raised and sent.                                              *)
(***************************************************************************)
VARIABLES
  translator,      \* the translator instance: its batch_size and compiled glossary
  heap,            \* the objects that exist
  data,            \* the caller's value: a scalar or a reference into heap
  exclude_keys,    \* the exclude_keys argument
  use_term_pairs,  \* the use_term_pairs argument
  heap0,           \* the caller's objects as they were handed over
  pc,              \* which call has been made
  outcome,         \* its result: returned value or raised exception
  pairs,           \* what _collect_translatable_strings returned
  translated,      \* the translated_strings given to _reconstruct_data
  requests,        \* the requests sent to the remote service, in order
  backend,         \* the translator class used
  mode,            \* how the service answered
  texts,           \* the argument of a direct translate_texts call
  out,             \* the list translate_texts returned
  paths,           \* the paths given to _reconstruct_data
  annotated,       \* the text an annotator returned
  spans,           \* the spans of the input its pattern matched, in order
  fuzzy,           \* what the fuzzy search answered during the call
  glossary,        \* the globals of the terms module
  chunks,          \* the chunks of a markdown text
  markdown,        \* the text chunks_to_markdown returned
  environment,     \* settings.environment
  authorization,   \* the Authorization header of the request, if it has one
  token,           \* what oauth2_scheme returned for the request
  response,        \* what the dependencies answered: the user, or an HTTPException
  pii_sets,        \* the set objects that exist; the first is SchemeApplication.PII_CODES
  returned,        \* the sets get_pii_codes returned to its callers, in order
  call             \* the last call made on SchemeApplication or on a returned set

\* What the glossary annotators and the markdown functions leave behind.
textVars == << annotated, spans, fuzzy, glossary, chunks, markdown >>

\* The class-level masking configuration and what was done with it.
piiVars == << pii_sets, returned, call >>

\* What the API process holds besides the translation pipeline.
serviceVars == << environment, authorization, token, response, piiVars >>

vars == << translator, heap, data, exclude_keys, use_term_pairs, heap0, pc, outcome, pairs,
           translated, requests, backend, mode, texts, out, paths, textVars, serviceVars >>

\* An optional value: None, or a string as its words (the pieces between
\* single spaces; the empty string has none).
None    == [some |-> FALSE, v |-> <<>>]
Some(v) == [some |-> TRUE, v |-> v]

\* No request has been answered.
NoResponse == [status |-> "none", status_code |-> 0, detail |-> "", user |-> ""]

\* The set object bound to the class attribute SchemeApplication.PII_CODES,
\* and the codes it holds when the module is imported.
PII_CODES       == 1
InitialPiiCodes == {"application_id", "farmer_component_mapping_id"}

\* No call has been made on SchemeApplication.
NoCall ==
  [op |-> "none", self |-> 0, code |-> "", value |-> <<>>, mask_pii |-> FALSE,
   result |-> <<>>, handle |-> 0, before |-> {}]

\* The mahadbt module as imported.
NoPii ==
  /\ pii_sets = << InitialPiiCodes >>
  /\ returned = <<>>
  /\ call = NoCall

\* The API process before any request.
NoService ==
  /\ environment = "production"
  /\ authorization = None
  /\ token = None
  /\ response = NoResponse
  /\ NoPii

\* No fuzzy search was made.
NoFuzzy == [match_term |-> <<>>, score |-> 0]

NoOutcome == [status |-> "none", v |-> Null, err |-> "", args |-> NoArgs]

Init ==
  /\ \E batch_size \in BatchSizes : translator = BaseTranslator(batch_size, term_pairs)
  /\ \E inp \in Inputs : heap = inp.heap /\ data = inp.data /\ heap0 = inp.heap
  /\ exclude_keys \in ExcludeSets
  /\ use_term_pairs \in BOOLEAN
  /\ pc = "ready"
  /\ outcome = NoOutcome
  /\ pairs = <<>>
  /\ translated = <<>>
  /\ requests = <<>>
  /\ backend = "none"
  /\ mode = "none"
  /\ texts = <<>>
  /\ out = <<>>
  /\ paths = <<>>
  /\ annotated = <<>>
  /\ spans = <<>>
  /\ fuzzy = NoFuzzy
  /\ glossary = NoGlossary
  /\ chunks = <<>>
  /\ markdown = <<>>
  /\ NoService

\* A call of _collect_translatable_strings(data, exclude_keys).
Collect ==
  /\ pc = "ready"
  /\ pairs' = _collect_translatable_strings(heap, data, exclude_keys)
  /\ outcome' = [status |-> "ok", v |-> Null, err |-> "", args |-> NoArgs]
  /\ pc' = "collected"
  /\ UNCHANGED << serviceVars, translator, heap, data, exclude_keys, use_term_pairs, heap0, translated,
                  requests, backend, mode, texts, out, paths, textVars >>

\* The translated lists tried: the service's translations, or one fixed
\* string for every entry; both as long as the list of paths.
TranslatedChoices(strings) ==
  {Faithful(strings), [i \in 1..Len(strings) |-> <<"x">>]}

\* A call of _reconstruct_data(data, translated, paths) on collected paths.
Reconstruct ==
  /\ pc = "collected"
  /\ \E tr \in TranslatedChoices(StringsOf(pairs)) :
       LET r == _reconstruct_data(heap, data, tr, PathsOf(pairs))
       IN  /\ translated' = tr
           /\ paths' = PathsOf(pairs)
           /\ heap' = r.h
           /\ outcome' = [status |-> r.status, v |-> r.v, err |-> r.err, args |-> NoArgs]
  /\ pc' = "reconstructed"
  /\ UNCHANGED << serviceVars, translator, data, exclude_keys, use_term_pairs, heap0, pairs, requests,
                  backend, mode, texts, out, textVars >>

\* A call of translate(data, exclude_keys, use_term_pairs) on either backend,
\* the service answering in any of its ways.
Translate ==
  /\ pc = "ready"
  /\ \E b \in Backends, m \in RespModes :
       LET r == translate(translator, heap, data, exclude_keys, use_term_pairs, b, m)
       IN  /\ backend' = b
           /\ mode' = m
           /\ heap' = r.h
           /\ outcome' = [status |-> r.status, v |-> r.v, err |-> r.err, args |-> r.args]
           /\ requests' = r.requests
  /\ pc' = "translated"
  /\ UNCHANGED << serviceVars, translator, data, exclude_keys, use_term_pairs, heap0, pairs, translated,
                  texts, out, paths, textVars >>

\* A direct call of translate_texts on the string leaves of the input (an
\* empty list when it has none).
TranslateTexts ==
  /\ pc = "ready"
  /\ \E b \in Backends, m \in RespModes :
       LET t == StringLeaves(heap, data)
           r == translate_texts(b, t, m)
       IN  /\ backend' = b
           /\ mode' = m
           /\ texts' = t
           /\ out' = r.out
           /\ outcome' = [status |-> r.status, v |-> Null, err |-> r.err, args |-> r.args]
           /\ requests' = r.requests
  /\ pc' = "texts_translated"
  /\ UNCHANGED << serviceVars, translator, heap, data, exclude_keys, use_term_pairs, heap0, pairs,
                  translated, paths, textVars >>

\* The tokens and paths tried on _reconstruct_data directly: keys that exist
\* in some inputs and one that exists in none, an index that exists in the
\* lists and one beyond them.
ProbeTokens == {Key("b"), Key("zz"), Idx(0), Idx(5)}
ProbePaths  == {<<t>> : t \in ProbeTokens} \cup {<<t, u>> : t \in ProbeTokens, u \in ProbeTokens}

\* A call of _reconstruct_data(data, ["x"], [path]) with any path, whether
\* it addresses a position of data or not.
ReconstructAt ==
  /\ pc = "ready"
  /\ \E path \in ProbePaths :
       LET r == _reconstruct_data(heap, data, << <<"x">> >>, <<path>>)
       IN  /\ paths' = <<path>>
           /\ translated' = << <<"x">> >>
           /\ heap' = r.h
           /\ outcome' = [status |-> r.status, v |-> r.v, err |-> r.err, args |-> NoArgs]
  /\ pc' = "reconstructed_at"
  /\ UNCHANGED << serviceVars, translator, data, exclude_keys, use_term_pairs, heap0, pairs, requests,
                  backend, mode, texts, out, textVars >>

\* A call of _add_paired_translations(text) on a bare string.
Annotate ==
  /\ pc = "ready"
  /\ data.tag = "str"
  /\ annotated' = _add_paired_translations(translator, data.s)
  /\ spans' = IF translator._compiled_pattern = <<>> \/ DOMAIN translator._term_mapping = {}
              THEN <<>>
              ELSE finditer("lookaround", translator._compiled_pattern, data.s, 1)
  /\ pc' = "annotated"
  /\ UNCHANGED << serviceVars, translator, heap, data, exclude_keys, use_term_pairs, heap0, outcome, pairs,
                  translated, requests, backend, mode, texts, out, paths, fuzzy, glossary,
                  chunks, markdown >>

\* The terms module imported with one of the glossaries, then a call of
\* normalize_text_with_glossary(text) on a bare string, the fuzzy search
\* answering in any of its ways when it is asked.
Normalize ==
  /\ pc = "ready"
  /\ data.tag = "str"
  /\ \E TERM_PAIRS \in Glossaries :
       LET G == TermsModule(TERM_PAIRS)
       IN  \E answer \in FuzzyAnswers(G.EN_TERMS) :
             /\ glossary' = G
             /\ fuzzy' = IF AsksFuzzy(G, data.s) THEN answer ELSE NoFuzzy
             /\ annotated' = normalize_text_with_glossary(G, data.s, threshold, answer)
             /\ spans' = finditer("\\b", G.GLOSSARY_PATTERN, data.s, 1)
  /\ pc' = "normalized"
  /\ UNCHANGED << serviceVars, translator, heap, data, exclude_keys, use_term_pairs, heap0, outcome, pairs,
                  translated, requests, backend, mode, texts, out, paths, chunks, markdown >>

Next ==
  \/ Collect \/ Reconstruct \/ Translate \/ TranslateTexts \/ ReconstructAt
  \/ Annotate \/ Normalize

Spec == Init /\ [][Next]_vars

(***************************************************************************)
(* The markdown helpers, called on a text: split, an optional replacement  *)
(* of the prose bodies (as a translation of the chunks would do), join.    *)
(***************************************************************************)
\* "# a\na\n- a\n": a heading, a body line and a list item.
HeadingExample == <<"#", " ", "a", "\n", "a", "\n", "-", " ", "a", "\n">>

\* "-\n - a": an empty list item followed by an indented one.
NestedExample == <<"-", "\n", " ", "-", " ", "a">>

\* The texts tried.
MarkdownTexts == MdStringsUpTo(MaxMdLen) \cup {HeadingExample, NestedExample}

InitMarkdown ==
  /\ translator = BaseTranslator(4, term_pairs)
  /\ heap = <<>>
  /\ heap0 = <<>>
  /\ \E t \in MarkdownTexts : data = Str(t)
  /\ exclude_keys = {}
  /\ use_term_pairs = FALSE
  /\ pc = "ready"
  /\ outcome = NoOutcome
  /\ pairs = <<>>
  /\ translated = <<>>
  /\ requests = <<>>
  /\ backend = "none"
  /\ mode = "none"
  /\ texts = <<>>
  /\ out = <<>>
  /\ paths = <<>>
  /\ annotated = <<>>
  /\ spans = <<>>
  /\ fuzzy = NoFuzzy
  /\ glossary = NoGlossary
  /\ chunks = <<>>
  /\ markdown = <<>>
  /\ NoService

\* What the markdown helpers never touch.
pipelineVars ==
  << serviceVars, translator, heap, data, exclude_keys, use_term_pairs, heap0, outcome, pairs, translated,
     requests, backend, mode, texts, out, paths, annotated, spans, fuzzy, glossary >>

\* A call of markdown_to_chunks(text).
Split ==
  /\ pc = "ready"
  /\ chunks' = markdown_to_chunks(data.s)
  /\ pc' = "split"
  /\ UNCHANGED << pipelineVars, markdown >>

\* The bodies put in place of a prose body: a fixed string, the service's
\* translation of the body, or nothing.
BodyChoices == {"fixed", "translated", "emptied"}
NewBody(choice, text) ==
  CASE choice = "fixed"      -> <<"x">>
    [] choice = "translated" -> Translation(text)
    [] OTHER                 -> <<>>

\* The caller replaces the 'text' of every prose chunk.
ReplaceBodies ==
  /\ pc = "split"
  /\ \E choice \in BodyChoices :
       chunks' = [i \in 1..Len(chunks) |->
                    IF chunks[i].start = <<>>
                    THEN [chunks[i] EXCEPT !.text = NewBody(choice, chunks[i].text)]
                    ELSE chunks[i]]
  /\ pc' = "replaced"
  /\ UNCHANGED << pipelineVars, markdown >>

\* A call of chunks_to_markdown(chunks).
Join ==
  /\ pc \in {"split", "replaced"}
  /\ markdown' = chunks_to_markdown(chunks)
  /\ pc' = IF pc = "split" THEN "joined" ELSE "rejoined"
  /\ UNCHANGED << pipelineVars, chunks >>

NextMarkdown == Split \/ ReplaceBodies \/ Join

SpecMarkdown == InitMarkdown /\ [][NextMarkdown]_vars

(***************************************************************************)
(* src/app/auth/jwt_auth.py: the bearer scheme that is optional in         *)
(* development, and the get_current_user dependency that follows it.       *)
(***************************************************************************)
\* What the pipeline variables hold while only the service is looked at.
NoPipeline ==
  /\ translator = BaseTranslator(4, term_pairs)
  /\ heap = <<>>
  /\ heap0 = <<>>
  /\ data = Null
  /\ exclude_keys = {}
  /\ use_term_pairs = FALSE
  /\ outcome = NoOutcome
  /\ pairs = <<>>
  /\ translated = <<>>
  /\ requests = <<>>
  /\ backend = "none"
  /\ mode = "none"
  /\ texts = <<>>
  /\ out = <<>>
  /\ paths = <<>>
  /\ annotated = <<>>
  /\ spans = <<>>
  /\ fuzzy = NoFuzzy
  /\ glossary = NoGlossary
  /\ chunks = <<>>
  /\ markdown = <<>>

\* The values of settings.environment.
Environments == {"development", "production"}

\* The Authorization headers tried: none, an empty one, a scheme alone, and
\* a scheme with credentials; the credentials are a token that verifies, one
\* that has expired and one whose signature is wrong.
Schemes     == {"Bearer", "bearer", "BEARER", "Basic"}
Credentials == {"good.jwt", "expired.jwt", "forged.jwt"}
AuthorizationHeaders ==
  {None, Some(<<>>)} \cup {Some(<<s>>) : s \in Schemes}
    \cup {Some(<<s, c>>) : s \in Schemes, c \in Credentials}

\* scheme.lower()
scheme_lower(scheme) ==
  CASE scheme \in {"Bearer", "bearer", "BEARER"} -> "bearer"
    [] scheme = "Basic" -> "basic"
    [] OTHER -> scheme

\* fastapi's get_authorization_scheme_param: the header value cut at its
\* first space; two empty strings for an empty value.
get_authorization_scheme_param(authorization_header_value) ==
  IF authorization_header_value = <<>> THEN [scheme |-> "", param |-> <<>>]
  ELSE [scheme |-> Head(authorization_header_value),
        param  |-> Tail(authorization_header_value)]

\* An HTTPException and a returned value, as the answer of a dependency.
HTTPException(status_code, detail) ==
  [status |-> "raised", status_code |-> status_code, detail |-> detail, user |-> ""]
Accepted(user) ==
  [status |-> "returned", status_code |-> 0, detail |-> "", user |-> user]

\* status.HTTP_401_UNAUTHORIZED
HTTP_401_UNAUTHORIZED == 401

\* What a scheme call gives: a token (or None) for the next dependency, or
\* an HTTPException.
SchemeReturned(t)  == [raised |-> FALSE, token |-> t, response |-> NoResponse]
SchemeRaised(exc)  == [raised |-> TRUE, token |-> None, response |-> exc]

\* OptionalOAuth2PasswordBearer.__call__ when settings.environment is
\* "development": no header, an empty one or another scheme give None.
DevelopmentScheme(authorization_header) ==
  IF ~authorization_header.some \/ authorization_header.v = <<>>
  THEN SchemeReturned(None)
  ELSE LET sp == get_authorization_scheme_param(authorization_header.v)
       IN  IF scheme_lower(sp.scheme) # "bearer" THEN SchemeReturned(None)
           ELSE SchemeReturned(Some(sp.param))

\* fastapi's OAuth2PasswordBearer.__call__ (auto_error left at True): a
\* missing header or another scheme is answered 401.
OAuth2PasswordBearer(authorization_header) ==
  LET value == IF authorization_header.some THEN authorization_header.v ELSE <<>>
      sp    == get_authorization_scheme_param(value)
  IN  IF value = <<>> \/ scheme_lower(sp.scheme) # "bearer"
      THEN SchemeRaised(HTTPException(HTTP_401_UNAUTHORIZED, "Not authenticated"))
      ELSE SchemeReturned(Some(sp.param))

\* OptionalOAuth2PasswordBearer.__call__
oauth2_scheme(env, authorization_header) ==
  IF env = "development" THEN DevelopmentScheme(authorization_header)
  ELSE OAuth2PasswordBearer(authorization_header)

\* The key loaded when the module is imported (the import fails otherwise).
public_key == "loaded"

\* jwt.decode(token, public_key, ...): the claims of a token that verifies,
\* or the exception raised.  A token that is not a string is refused as an
\* invalid token or with a type error, depending on the library's version;
\* an empty or malformed string and a wrong signature are invalid tokens.
Decoded(claims) == [raised |-> "", claims |-> claims]
DecodeRaised(e) == [raised |-> e, claims |-> ""]
jwt_decode(tok) ==
  IF ~tok.some THEN {DecodeRaised("InvalidTokenError"), DecodeRaised("TypeError")}
  ELSE IF tok.v = <<"good.jwt">> THEN {Decoded("farmer")}
  ELSE IF tok.v = <<"expired.jwt">> THEN {DecodeRaised("ExpiredSignatureError")}
  ELSE {DecodeRaised("InvalidTokenError")}

\* get_current_user(token), decoded being what jwt.decode did.
get_current_user(env, tok, decoded) ==
  IF public_key = "None"
  THEN HTTPException(HTTP_401_UNAUTHORIZED, "Could not validate credentials")
  ELSE CASE decoded.raised = "" -> Accepted(decoded.claims)
         [] decoded.raised = "ExpiredSignatureError" ->
              HTTPException(HTTP_401_UNAUTHORIZED, "Token has expired")
         [] decoded.raised = "InvalidTokenError" ->
              HTTPException(HTTP_401_UNAUTHORIZED, "Invalid token")
         [] OTHER ->
              HTTPException(HTTP_401_UNAUTHORIZED, "Token verification failed")

\* A request arrives at a protected route of the process, which runs in
\* one of the environments.
InitAuth ==
  /\ NoPipeline
  /\ pc = "ready"
  /\ environment \in Environments
  /\ authorization \in AuthorizationHeaders
  /\ token = None
  /\ response = NoResponse
  /\ NoPii

\* The framework resolves oauth2_scheme for the request.
OAuth2Scheme ==
  /\ pc = "ready"
  /\ LET r == oauth2_scheme(environment, authorization)
     IN  /\ token' = r.token
         /\ response' = r.response
         /\ pc' = IF r.raised THEN "answered" ELSE "token"
  /\ UNCHANGED << translator, heap, data, exclude_keys, use_term_pairs, heap0, outcome, pairs,
                  translated, requests, backend, mode, texts, out, paths, textVars,
                  environment, authorization, piiVars >>

\* The framework calls get_current_user with the token.
GetCurrentUser ==
  /\ pc = "token"
  /\ \E decoded \in jwt_decode(token) :
       response' = get_current_user(environment, token, decoded)
  /\ pc' = "answered"
  /\ UNCHANGED << translator, heap, data, exclude_keys, use_term_pairs, heap0, outcome, pairs,
                  translated, requests, backend, mode, texts, out, paths, textVars,
                  environment, authorization, token, piiVars >>

NextAuth == OAuth2Scheme \/ GetCurrentUser

SpecAuth == InitAuth /\ [][NextAuth]_vars

(***************************************************************************)
(* The masking configuration of SchemeApplication (agents/tools/           *)
(* mahadbt.py): one set object bound to the class attribute PII_CODES,     *)
(* which every instance reads, and the copies get_pii_codes hands out.     *)
(***************************************************************************)
\* How many times get_pii_codes is called.
MaxCopies == 2

\* Two SchemeApplication instances.
Instances == {1, 2}

\* Tag codes the calls are made with: one the class masks from the start and
\* one it does not.
TagCodes == {"application_id", "scheme_name"}

\* Tag values: empty, the two placeholders, four characters, more than four
\* with blanks around them, and the mask itself.
TagValues ==
  { <<>>,
    <<"n", "u", "l", "l">>,
    <<"N", "A">>,
    <<"1", "2", "3", "4">>,
    <<" ", "1", "2", "3", "4", "5", " ">>,
    <<"*", "*", "*">> }

\* cls.PII_CODES.add(code)
add_pii_code(sets, code) == [sets EXCEPT ![PII_CODES] = @ \cup {code}]

\* cls.PII_CODES.discard(code)
remove_pii_code(sets, code) == [sets EXCEPT ![PII_CODES] = @ \ {code}]

\* A slip: the set itself is returned, not a copy of it.
get_pii_codes_shared(sets) == [sets |-> sets, handle |-> PII_CODES]

\* return cls.PII_CODES.copy(): a new set object with the same codes.
get_pii_codes(sets) ==
  [sets |-> Append(sets, sets[PII_CODES]), handle |-> Len(sets) + 1]

\* Only the last four characters of the stripped value are shown.
_mask_pii_value(value) ==
  IF value = <<>> \/ value \in {<<"n", "u", "l", "l">>, <<"N", "A">>}
  THEN <<"*", "*", "*">>
  ELSE LET clean_value == strip(value)
       IN  IF Len(clean_value) <= 4
           THEN <<"*", "*", "*">>
           ELSE <<"*", "*", "*">>
                  \o SubSeq(clean_value, Len(clean_value) - 3, Len(clean_value))

\* self.PII_CODES is the class attribute: an instance has none of its own.
_format_tag_value(sets, self, code, value, mask_pii) ==
  IF mask_pii /\ code \in sets[PII_CODES] THEN _mask_pii_value(value) ELSE value

\* Everything but the masking configuration.
notPiiVars ==
  << translator, heap, data, exclude_keys, use_term_pairs, heap0, pc, outcome, pairs,
     translated, requests, backend, mode, texts, out, paths, textVars,
     environment, authorization, token, response >>

InitPii ==
  /\ NoPipeline
  /\ pc = "ready"
  /\ NoService

\* SchemeApplication.add_pii_code(code)
AddPiiCode ==
  /\ \E code \in TagCodes :
       /\ pii_sets' = add_pii_code(pii_sets, code)
       /\ call' = [NoCall EXCEPT !.op = "add_pii_code", !.code = code]
  /\ UNCHANGED << returned, notPiiVars >>

\* SchemeApplication.remove_pii_code(code)
RemovePiiCode ==
  /\ \E code \in TagCodes :
       /\ pii_sets' = remove_pii_code(pii_sets, code)
       /\ call' = [NoCall EXCEPT !.op = "remove_pii_code", !.code = code]
  /\ UNCHANGED << returned, notPiiVars >>

\* codes = SchemeApplication.get_pii_codes()
GetPiiCodes ==
  /\ Len(returned) < MaxCopies
  /\ LET r == get_pii_codes(pii_sets)
     IN  /\ pii_sets' = r.sets
         /\ returned' = Append(returned, r.handle)
         /\ call' = [NoCall EXCEPT !.op = "get_pii_codes", !.handle = r.handle]
  /\ UNCHANGED notPiiVars

\* The caller changes a set it was given: codes.add(code) or
\* codes.discard(code).
MutateReturned ==
  /\ \E i \in 1..Len(returned), code \in TagCodes, method \in {"add", "discard"} :
       LET codes == returned[i]
       IN  /\ pii_sets' = [pii_sets EXCEPT ![codes] =
                             IF method = "add" THEN @ \cup {code} ELSE @ \ {code}]
           /\ call' = [NoCall EXCEPT !.op = method, !.code = code, !.handle = codes,
                                     !.before = pii_sets[codes]]
  /\ UNCHANGED << returned, notPiiVars >>

\* instance._format_tag_value(code, value, mask_pii)
FormatTagValue ==
  /\ \E self \in Instances, code \in TagCodes, value \in TagValues, mask_pii \in BOOLEAN :
       call' = [NoCall EXCEPT !.op = "_format_tag_value", !.self = self, !.code = code,
                              !.value = value, !.mask_pii = mask_pii,
                              !.result = _format_tag_value(pii_sets, self, code, value, mask_pii)]
  /\ UNCHANGED << pii_sets, returned, notPiiVars >>

NextPii == AddPiiCode \/ RemovePiiCode \/ GetPiiCodes \/ MutateReturned \/ FormatTagValue

SpecPii == InitPii /\ [][NextPii]_vars

(***************************************************************************)
(* Observations of a tree, used to state the properties.                   *)
(***************************************************************************)
\* Every position of a value: the paths of its nodes, the root included.
RECURSIVE Positions(_, _, _)
Positions(h, v, prefix) ==
  {prefix} \cup
  (IF v.tag = "ref"
   THEN UNION {Positions(h, h[v.n].vals[i], Append(prefix, h[v.n].keys[i])) :
                 i \in 1..Len(h[v.n].keys)}
   ELSE {})

\* The node at a position.
RECURSIVE NodeAt(_, _, _)
NodeAt(h, v, path) ==
  IF path = <<>> THEN v
  ELSE LET obj == h[v.n]
           j   == CHOOSE j \in 1..Len(obj.keys) : obj.keys[j] = Head(path)
       IN  NodeAt(h, obj.vals[j], Tail(path))

\* The identities of the dicts and lists a value is made of.
RECURSIVE Objects(_, _)
Objects(h, v) ==
  IF v.tag = "ref"
  THEN {v.n} \cup UNION {Objects(h, h[v.n].vals[i]) : i \in 1..Len(h[v.n].vals)}
  ELSE {}

ContainsAlnum(s) == \E i \in 1..Len(s) : s[i] \in {"a", "A", "s", "S", LongS, "i", DottedI}

PathSet(ps) == {ps[i].path : i \in 1..Len(ps)}

\* The string collected at path p.
CollectedAt(ps, p) == (CHOOSE i \in 1..Len(ps) : ps[i].path = p)

\* The caller's value as it was handed over.
OriginalAt(p) == NodeAt(heap0, data, p)
OriginalPositions == Positions(heap0, data, <<>>)

\* Value v of heap h has the shape of the caller's value: the same
\* positions, the same kind and keys at every dict and list, the same
\* non-string leaves, and the same string at every position outside `free`.
SameShapeExcept(h, v, free) ==
  /\ Positions(h, v, <<>>) = OriginalPositions
  /\ \A p \in OriginalPositions :
       LET a == OriginalAt(p)
           b == NodeAt(h, v, p)
       IN  /\ a.tag = b.tag
           /\ a.tag = "ref" =>
                /\ h[b.n].kind = heap0[a.n].kind
                /\ h[b.n].keys = heap0[a.n].keys
           /\ a.tag \notin {"ref", "str"} => b = a
           /\ (a.tag = "str" /\ p \notin free) => b = a

\* The caller's objects are what they were.
InputUntouched ==
  /\ Len(heap) >= Len(heap0)
  /\ \A i \in 1..Len(heap0) : heap[i] = heap0[i]

(***************************************************************************)
(* Properties.                                                             *)
(***************************************************************************)

\* C1 (as stated): for every value D and exclude set, _reconstruct_data on
\* the collected paths and a list of as many strings returns a value with the
\* key sets, sequence lengths and non-string leaves of D, in which only string
\* leaves at collected paths may differ.
C1_ShapePreserved ==
  pc = "reconstructed" =>
    /\ outcome.status = "ok"
    /\ SameShapeExcept(heap, outcome.v, PathSet(pairs))

\* C1 (amended): the same, except for a bare translatable string: its
\* collected path is empty and _reconstruct_data raises IndexError.
C1_ShapePreservedExceptBareString ==
  pc = "reconstructed" =>
    IF data.tag = "str" /\ pairs # <<>>
    THEN outcome.status = "raise" /\ outcome.err = "IndexError"
    ELSE /\ outcome.status = "ok"
         /\ SameShapeExcept(heap, outcome.v, PathSet(pairs))

\* A tree with two collected leaves has been rebuilt with other strings.
C1_Witness ==
  /\ pc = "reconstructed"
  /\ data.tag = "ref"
  /\ Len(pairs) = 2
  /\ outcome.status = "ok"
  /\ \A i \in 1..2 : NodeAt(heap, outcome.v, pairs[i].path) = Str(translated[i])
  /\ \A i \in 1..2 : translated[i] # pairs[i].s

\* C2: with a backend that maps every text s to its translation in order,
\* and use_term_pairs false, translate returns a value in which every leaf at a
\* collected path holds the translation of the original leaf and every other
\* position holds its original value, for every value and exclude set.
C2_BackendBatchOrdering ==
  (pc = "translated" /\ mode = "faithful" /\ ~use_term_pairs) =>
    LET ps == _collect_translatable_strings(heap0, data, exclude_keys)
    IN  /\ outcome.status = "ok"
        /\ Positions(heap, outcome.v, <<>>) = OriginalPositions
        /\ \A p \in OriginalPositions :
             LET a == OriginalAt(p)
                 b == NodeAt(heap, outcome.v, p)
             IN  IF p \in PathSet(ps) THEN b = Str(Translation(a.s))
                 ELSE IF a.tag = "ref"
                      THEN /\ b.tag = "ref"
                           /\ heap[b.n].kind = heap0[a.n].kind
                           /\ heap[b.n].keys = heap0[a.n].keys
                      ELSE b = a

\* A mapping key that is in exclude_keys lies on path p.
ExcludedKeyOn(p) == \E i \in 1..Len(p) : p[i].t = "key" /\ p[i].name \in exclude_keys

\* The example {"a": <text>, "secret": {"b": <text>}} with exclude_keys = {"secret"}.
SecretExample ==
  /\ heap0 = << DictObj(<<Key("b")>>, <<Str(<<"A", "!">>)>>),
                DictObj(<<Key("a"), Key("secret")>>, <<Str(<<"a">>), Ref(1)>>) >>
  /\ data = Ref(2)
  /\ exclude_keys = {"secret"}

\* C3: exclusion is inherited downward: no collected path holds an excluded
\* mapping key at any depth; the example yields exactly one entry, for path
\* ["a"]; and after translate nothing under an excluded key is altered.
C3_ExclusionInherited ==
  /\ pc = "collected" =>
       /\ \A i \in 1..Len(pairs) : ~ExcludedKeyOn(pairs[i].path)
       /\ SecretExample => pairs = << [path |-> <<Key("a")>>, s |-> <<"a">>] >>
  /\ (pc = "translated" /\ outcome.status = "ok") =>
       /\ Positions(heap, outcome.v, <<>>) = OriginalPositions
       /\ \A p \in OriginalPositions :
            ExcludedKeyOn(p) =>
              LET a == OriginalAt(p)
                  b == NodeAt(heap, outcome.v, p)
              IN  IF a.tag = "ref"
                  THEN b.tag = "ref" /\ heap[b.n].keys = heap0[a.n].keys
                  ELSE b = a

\* The example has been translated: "a" changed, the text under "secret" kept.
C3_Witness ==
  /\ pc = "translated"
  /\ SecretExample
  /\ outcome.status = "ok"
  /\ NodeAt(heap, outcome.v, <<Key("a")>>) # Str(<<"a">>)
  /\ NodeAt(heap, outcome.v, <<Key("secret"), Key("b")>>) = Str(<<"A", "!">>)

\* C4: translate never mutates the caller's input, whatever the exclude set
\* and use_term_pairs, and whether the backend call succeeds or fails.
C4_InputNotMutated == pc = "translated" => InputUntouched

\* translate returned a rebuilt tree that differs from the caller's.
C4_Witness ==
  /\ pc = "translated"
  /\ outcome.status = "ok"
  /\ data.tag = "ref"
  /\ \E p \in OriginalPositions :
       /\ OriginalAt(p).tag = "str"
       /\ NodeAt(heap, outcome.v, p) # OriginalAt(p)

\* C5 (as stated): the value _reconstruct_data returns shares no mapping or
\* sequence object with the original, also when paths is empty.
C5_NoAliasing ==
  (pc = "reconstructed" /\ outcome.status = "ok") =>
    Objects(heap, outcome.v) \cap Objects(heap, data) = {}

\* C5 (amended): it shares none when paths is not empty; when paths is empty
\* it returns the original itself and copies nothing.
C5_NoAliasingUnlessNoPaths ==
  (pc = "reconstructed" /\ outcome.status = "ok") =>
    IF pairs = <<>>
    THEN outcome.v = data /\ heap = heap0
    ELSE Objects(heap, outcome.v) \cap Objects(heap, data) = {}

\* A nested tree with a collected leaf has been rebuilt.
C5_Witness ==
  /\ pc = "reconstructed"
  /\ outcome.status = "ok"
  /\ pairs # <<>>
  /\ Cardinality(Objects(heap, data)) = 2
  /\ Cardinality(Objects(heap, outcome.v)) = 2

\* C6: when collection yields no string, translate sends no request and
\* returns a value equal to its input.
C6_NoLeavesNoCalls ==
  (pc = "translated" /\ _collect_translatable_strings(heap0, data, exclude_keys) = <<>>) =>
    /\ requests = <<>>
    /\ outcome.status = "ok"
    /\ outcome.v = data
    /\ heap = heap0

\* translate ran on a tree that holds strings, none of them translatable.
C6_Witness ==
  /\ pc = "translated"
  /\ data.tag = "ref"
  /\ Len(StringLeaves(heap0, data)) = 2
  /\ _collect_translatable_strings(heap0, data, exclude_keys) = <<>>
  /\ exclude_keys = {}

\* Path p is skipped: the string form of one of its tokens is excluded.
PathExcluded(p) == \E i \in 1..Len(p) : StrOfToken(p[i]) \in exclude_keys

\* C7: a string leaf on a non-excluded path is collected exactly when it
\* contains an alphanumeric character; strings without one are never sent to
\* the backend and keep their value in the output.
C7_CollectedIffAlnum ==
  /\ pc = "collected" =>
       \A p \in OriginalPositions :
         (OriginalAt(p).tag = "str" /\ ~PathExcluded(p)) =>
           (p \in PathSet(pairs) <=> ContainsAlnum(OriginalAt(p).s))
  /\ pc = "translated" =>
       /\ \A r \in 1..Len(requests) :
            \A i \in 1..Len(requests[r]) : ContainsAlnum(requests[r][i])
       /\ outcome.status = "ok" =>
            /\ Positions(heap, outcome.v, <<>>) = OriginalPositions
            /\ \A p \in OriginalPositions :
                 (OriginalAt(p).tag = "str" /\ ~ContainsAlnum(OriginalAt(p).s)) =>
                   NodeAt(heap, outcome.v, p) = OriginalAt(p)

\* Of two string leaves on non-excluded paths the one with a letter was
\* collected and the punctuation-only one was not.
C7_Witness ==
  /\ pc = "collected"
  /\ Len(pairs) = 1
  /\ \E p \in OriginalPositions :
       /\ OriginalAt(p) = Str(<<"!">>)
       /\ ~PathExcluded(p)
       /\ p \notin PathSet(pairs)

\* C8: a bare string is treated as a one-leaf tree: whatever exclude_keys
\* holds, it is annotated (when requested) and translated exactly when it
\* contains an alphanumeric character.
C8_BareStringIsOneLeafTree ==
  (pc = "translated" /\ data.tag = "str" /\ mode = "faithful") =>
    IF ContainsAlnum(data.s)
    THEN /\ outcome.status = "ok"
         /\ outcome.v = Str(Translation(IF use_term_pairs
                                        THEN _add_paired_translations(translator, data.s)
                                        ELSE data.s))
         /\ Len(requests) = 1
    ELSE /\ outcome.status = "ok"
         /\ outcome.v = data
         /\ requests = <<>>

\* C9: translate_texts called with an empty list returns an empty list and
\* sends no request, on either backend.
C9_EmptyListNoRequest ==
  (pc = "texts_translated" /\ texts = <<>>) =>
    /\ outcome.status = "ok"
    /\ out = <<>>
    /\ requests = <<>>

\* C10: for a non-empty list, a successful translate_texts call returns a
\* list of the same length, element i being the translation of input i.
C10_SameLengthAndOrder ==
  (pc = "texts_translated" /\ texts # <<>> /\ outcome.status = "ok") =>
    /\ Len(out) = Len(texts)
    /\ \A i \in 1..Len(out) : out[i] = Translation(texts[i])

(***************************************************************************)
(* Failures of the remote service.                                         *)
(***************************************************************************)
\* The service answered the last call with a status other than 200.
NonSuccess == mode # "none" /\ requests # <<>> /\ Response(requests[1], mode).status # 200

\* C11: a non-success answer of the service makes translate_texts raise an
\* error that carries the answer's status code and raw text, and return no
\* list, not even a partial one; translate then raises too and returns no
\* tree.
C11_FailureRaises ==
  /\ (pc = "texts_translated" /\ NonSuccess) =>
       /\ outcome.status = "raise"
       /\ outcome.args = ErrorArgs(Response(texts, mode).status, Response(texts, mode).text)
       /\ outcome.args.status_code # 200
       /\ out = <<>>
  /\ (pc = "translated" /\ NonSuccess) =>
       /\ outcome.status = "raise"
       /\ outcome.args.status_code = Response(requests[1], mode).status
       /\ outcome.args.text = Response(requests[1], mode).text
       /\ outcome.v = Null

\* A list of two texts was sent to Bhashini, which answered 500.
C11_Witness ==
  /\ pc = "texts_translated"
  /\ backend = "bhashini"
  /\ Len(texts) = 2
  /\ NonSuccess
  /\ outcome.status = "raise"
  /\ outcome.args.status_code = 500

\* A translate_texts call made by the last translate raised.
BackendCallFailed ==
  /\ pc = "translated"
  /\ requests # <<>>
  /\ translate_texts(backend, requests[1], mode).status = "raise"

\* C12: when a translate_texts call fails during translate, translate makes
\* no further backend call and raises that call's error to its caller.
C12_NoRetry ==
  BackendCallFailed =>
    /\ Len(requests) = 1
    /\ outcome.status = "raise"
    /\ outcome.err = translate_texts(backend, requests[1], mode).err
    /\ outcome.args = translate_texts(backend, requests[1], mode).args
    /\ outcome.v = Null

\* translate of a tree with two collected strings, the service failing.
C12_Witness ==
  /\ BackendCallFailed
  /\ data.tag = "ref"
  /\ Len(requests[1]) = 2
  /\ mode = "error"
  /\ Len(requests) = 1
  /\ outcome.status = "raise"

(***************************************************************************)
(* Batching.                                                               *)
(***************************************************************************)
\* C13: no translate_texts call made by translate carries more than
\* batch_size strings; more strings than that are sent in several calls,
\* whose results are put together in collection order.
C13_BatchSizeCapsRequests ==
  pc = "translated" =>
    /\ \A i \in 1..Len(requests) : Len(requests[i]) <= translator.batch_size
    /\ (data.tag = "ref" /\ outcome.status = "ok" /\ mode = "faithful") =>
         LET ps == _collect_translatable_strings(heap0, data, exclude_keys)
         IN  \A i \in 1..Len(ps) :
               NodeAt(heap, outcome.v, ps[i].path)
                 = Str(Translation(IF use_term_pairs
                                   THEN _add_paired_translations(translator, ps[i].s)
                                   ELSE ps[i].s))

\* Apart from the size of the one request, the pipeline does as C13 says:
\* every collected string is sent once, in order, and put back in place.
C13_OnlyTheCapFails ==
  pc = "translated" =>
    /\ Len(requests) <= 1
    /\ (data.tag = "ref" /\ outcome.status = "ok" /\ mode = "faithful") =>
         LET ps == _collect_translatable_strings(heap0, data, exclude_keys)
         IN  \A i \in 1..Len(ps) :
               NodeAt(heap, outcome.v, ps[i].path)
                 = Str(Translation(IF use_term_pairs
                                   THEN _add_paired_translations(translator, ps[i].s)
                                   ELSE ps[i].s))

(***************************************************************************)
(* Reconstruction on a path the tree does not have.                        *)
(***************************************************************************)
\* The last direct _reconstruct_data call was given a path that addresses no
\* position of the tree: a key or an index is missing at some token.
InconsistentPath == pc = "reconstructed_at" /\ paths[1] \notin OriginalPositions

\* C14: given a path that addresses no position of the original (a missing
\* key or an index out of range, at the last token or an earlier one),
\* _reconstruct_data raises; it returns no tree with a key added or a
\* translated string dropped.
C14_InconsistentPathRaises ==
  InconsistentPath =>
    /\ outcome.status = "raise"
    /\ outcome.err \in {"KeyError", "IndexError", "TypeError"}

\* Where the call does not raise: every token but the last exists, the last
\* is applied to a mapping, and the result has one more key than the
\* original.  Every other inconsistent path raises.
C14_OnlyMappingAssignmentAdds ==
  (InconsistentPath /\ outcome.status = "ok") =>
    LET path   == paths[1]
        parent == SubSeq(path, 1, Len(path) - 1)
    IN  /\ parent \in OriginalPositions
        /\ OriginalAt(parent).tag = "ref"
        /\ heap0[OriginalAt(parent).n].kind = "dict"
        /\ Positions(heap, outcome.v, <<>>) = OriginalPositions \cup {path}
        /\ NodeAt(heap, outcome.v, path) = Str(<<"x">>)

(***************************************************************************)
(* The glossary annotators.                                                *)
(***************************************************************************)
\* An annotator has run on the bare string data.s.
AnnotatorRan == pc \in {"annotated", "normalized"}

\* The alternatives of the pattern that was used and its shape.
PatternParts ==
  IF pc = "normalized" THEN glossary.GLOSSARY_PATTERN ELSE translator._compiled_pattern
PatternKind == IF pc = "normalized" THEN "\\b" ELSE "lookaround"

\* The source terms that match the text at position p, boundaries included.
CandidatesAt(p) ==
  {PatternParts[k] : k \in HitsAt(PatternKind, PatternParts, data.s, p)}

\* C15: where several source terms match at the same position, the longest
\* is the one matched and annotated; with the terms "a" and "a A" (for
\* "Virus" and "Yellow Mosaic Virus") the text "a A" gets exactly one
\* annotation, for the whole phrase.
C15_LongestMatchWins ==
  AnnotatorRan =>
    /\ \A i \in 1..Len(spans) :
         \A t \in CandidatesAt(spans[i].start) :
           Len(t) <= spans[i].end - spans[i].start
    /\ (pc = "annotated" /\ data.s = <<"a", " ", "A">>) =>
         /\ spans = <<Span(1, 4)>>
         /\ annotated = <<"a", " ", "A", " ", "(", "y", ")">>
    /\ (pc = "normalized" /\ glossary.TERM_PAIRS = PhraseGlossary
          /\ data.s = <<"a", " ", "A">>) =>
         /\ spans = <<Span(1, 4)>>
         /\ annotated = <<"a", " ", "A", " ", "[", "y", "]">>

\* "a A" annotated by normalize_text_with_glossary: both "a" and "a A"
\* match at its first character, and the phrase is the one annotated.
C15_Witness ==
  /\ pc = "normalized"
  /\ glossary.TERM_PAIRS = PhraseGlossary
  /\ data.s = <<"a", " ", "A">>
  /\ Cardinality(CandidatesAt(1)) = 2
  /\ spans = <<Span(1, 4)>>
  /\ annotated = <<"a", " ", "A", " ", "[", "y", "]">>

\* C16: in one annotation pass the matched spans lie one after another
\* inside the text and share no character, so no annotation is inserted
\* inside another matched term.
C16_MatchesDoNotOverlap ==
  AnnotatorRan =>
    /\ \A i \in 1..Len(spans) :
         1 <= spans[i].start /\ spans[i].start < spans[i].end
           /\ spans[i].end <= Len(data.s) + 1
    /\ \A i \in 1..Len(spans), j \in 1..Len(spans) :
         i < j => spans[i].end <= spans[j].start
    /\ \A p \in 1..Len(data.s) :
         Cardinality({i \in 1..Len(spans) : spans[i].start <= p /\ p < spans[i].end}) <= 1

\* The phrase "a A" was matched as a whole although the term "A" matches
\* inside it, at its third character.
C16_Witness ==
  /\ pc = "annotated"
  /\ data.s = <<"a", " ", "A">>
  /\ CandidatesAt(3) # {}
  /\ spans = <<Span(1, 4)>>

\* The number of annotations in the output: its opening square brackets
\* (no text and no target term of the model holds one).
Annotations(s) == Cardinality({i \in 1..Len(s) : s[i] = "["})

\* The matched spans that have an exact entry, and those that have none.
ExactSpans ==
  {i \in 1..Len(spans) :
     strip(lower(SubSeq(data.s, spans[i].start, spans[i].end - 1)))
       \in DOMAIN glossary.EN_INDEX}
FuzzySpans == (1..Len(spans)) \ ExactSpans

\* C17: a matched span with no exact entry is annotated, with the target of
\* the best scoring term, when the best score is the threshold or more, and
\* is left as it is when the best score is below the threshold (one unit
\* below included).
C17_ThresholdInclusive ==
  (pc = "normalized" /\ FuzzySpans # {}) =>
    /\ fuzzy.score >= threshold =>
         /\ Annotations(annotated) = Len(spans)
         /\ \A i \in FuzzySpans :
              replacer(glossary, data.s, spans[i], 0, fuzzy)
                = replacer(glossary, data.s, spans[i], threshold, fuzzy)
    /\ fuzzy.score < threshold =>
         /\ Annotations(annotated) = Cardinality(ExactSpans)
         /\ \A i \in FuzzySpans :
              replacer(glossary, data.s, spans[i], threshold, fuzzy)
                = SubSeq(data.s, spans[i].start, spans[i].end - 1)

\* "a a" with the one term "a ": the span "a " has no exact entry, the best
\* score equals the threshold and the span is annotated.
C17_Witness ==
  /\ pc = "normalized"
  /\ glossary.TERM_PAIRS = PaddedGlossary
  /\ data.s = <<"a", " ", "a">>
  /\ FuzzySpans = {1}
  /\ fuzzy.score = threshold
  /\ annotated = <<"a", " ", " ", "[", "z", "]", " ", "a">>

\* The same text with the best score one below the threshold: unchanged.
C17_OneBelow ==
  /\ pc = "normalized"
  /\ glossary.TERM_PAIRS = PaddedGlossary
  /\ data.s = <<"a", " ", "a">>
  /\ fuzzy.score = threshold - 1
  /\ annotated = data.s

\* The length of the bracketed segment that starts at s[o]: a space, an
\* opening bracket, and everything up to the first closing bracket; 0 when
\* none starts there.
SegmentLen(s, o) ==
  IF o + 1 <= Len(s) /\ s[o] = " " /\ s[o + 1] \in {"(", "["}
       /\ \E j \in (o + 2)..Len(s) : s[j] \in {")", "]"}
  THEN Least({j \in (o + 2)..Len(s) : s[j] \in {")", "]"}}) - o + 1
  ELSE 0

\* The output with the segment inserted after every matched span deleted
\* (with the space that follows a square bracket before an alphanumeric
\* character of the text): o runs over the output s, p over the text.
RECURSIVE Removing(_, _, _, _, _, _)
Removing(s, text, matches, i, o, p) ==
  IF i > Len(matches) THEN SubSeq(s, o, Len(s))
  ELSE LET o2    == o + (matches[i].end - p)
           n     == SegmentLen(s, o2)
           extra == IF /\ n > 0
                       /\ s[o2 + n - 1] = "]"
                       /\ matches[i].end <= Len(text) /\ isalnum(text[matches[i].end])
                       /\ o2 + n <= Len(s) /\ s[o2 + n] = " "
                    THEN 1 ELSE 0
       IN  SubSeq(s, o, o2 - 1)
           \o Removing(s, text, matches, i + 1, o2 + n + extra, matches[i].end)

DeleteInserted == Removing(annotated, data.s, spans, 1, 1, 1)

\* C18: both annotators only insert text: every matched span is in the
\* output with the characters and the letter case it has in the input,
\* followed by the bracketed target, and deleting the inserted segments
\* gives the input text back.
C18_OnlyInsertsKeepsCase ==
  AnnotatorRan => DeleteInserted = data.s

\* normalize_text_with_glossary does as C18 says; _add_paired_translations
\* gives the input back up to letter case only.
C18_StandaloneKeepsCase ==
  /\ pc = "normalized" => DeleteInserted = data.s
  /\ pc = "annotated"  => lower(DeleteInserted) = lower(data.s)

(***************************************************************************)
(* The markdown helpers.                                                   *)
(***************************************************************************)
\* The parts the split cuts the text into, the empty ones left out.
RECURSIVE NonEmpty(_)
NonEmpty(parts) ==
  IF parts = <<>> THEN <<>>
  ELSE IF Head(parts) = <<>> THEN NonEmpty(Tail(parts))
  ELSE <<Head(parts)>> \o NonEmpty(Tail(parts))
Parts == NonEmpty(re_split(data.s, 1, 1))

RECURSIVE Concat(_)
Concat(ss) == IF ss = <<>> THEN <<>> ELSE Head(ss) \o Concat(Tail(ss))

\* A prose span with its leading and trailing whitespace trimmed and one
\* newline put back when it ended in a newline.
Trimmed(part) ==
  strip(part) \o (IF part[Len(part)] = "\n" THEN <<"\n">> ELSE <<>>)

\* The text with every prose span trimmed in that way.
TrimmedText ==
  Concat([i \in 1..Len(Parts) |->
            IF IsMarker(Parts[i]) THEN Parts[i] ELSE Trimmed(Parts[i])])

\* No prose span has leading whitespace, or trailing whitespace other than
\* one final newline.
WellFormed ==
  \A i \in 1..Len(Parts) :
    ~IsMarker(Parts[i]) =>
      LET part == Parts[i]
          body == IF part[Len(part)] = "\n" THEN SubSeq(part, 1, Len(part) - 1) ELSE part
      IN  body = <<>> \/ (~IsSpaceChar(body[1]) /\ ~IsSpaceChar(body[Len(body)]))

\* A string without its whitespace.
RECURSIVE NoSpace(_)
NoSpace(s) ==
  IF s = <<>> THEN <<>>
  ELSE IF IsSpaceChar(Head(s)) THEN NoSpace(Tail(s))
  ELSE <<Head(s)>> \o NoSpace(Tail(s))

\* C19: chunks_to_markdown(markdown_to_chunks(t)) is t with every prose
\* span trimmed of leading and trailing whitespace and one newline put back
\* where the span ended in one; it is t itself when no prose span has such
\* whitespace, as for "# a\na\n- a\n".
C19_MarkdownRoundTrip ==
  pc = "joined" =>
    /\ Concat(Parts) = data.s
    /\ markdown = TrimmedText
    /\ NoSpace(markdown) = NoSpace(data.s)
    /\ WellFormed => markdown = data.s
    /\ data.s = HeadingExample => markdown = data.s

\* The example went round: two markers, two prose spans, nothing changed.
C19_Witness ==
  /\ pc = "joined"
  /\ data.s = HeadingExample
  /\ WellFormed
  /\ Len(chunks) = 4
  /\ markdown = HeadingExample

\* A text whose prose span has whitespace around it comes back trimmed.
C19_TrimmedCase ==
  /\ pc = "joined"
  /\ data.s = <<" ", "a", " ">>
  /\ markdown = <<"a">>

PartStart(i) == Len(Concat(SubSeq(Parts, 1, i - 1))) + 1

\* A string of whitespace only, of '#' only, of digits only.
AllIn(s, S) == \A j \in 1..Len(s) : s[j] \in S

\* Optional whitespace, then 1 to 6 '#', a '-', a '+' or digits and a '.',
\* then at least one whitespace character.
MarkerShape(s) ==
  \E a \in 0..Len(s), b \in 1..Len(s) :
    /\ a < b /\ b < Len(s)
    /\ AllIn(SubSeq(s, 1, a), {" ", "\n"})
    /\ AllIn(SubSeq(s, b + 1, Len(s)), {" ", "\n"})
    /\ LET core == SubSeq(s, a + 1, b)
       IN  \/ AllIn(core, {"#"}) /\ Len(core) <= 6
           \/ core \in {<<"-">>, <<"+">>}
           \/ /\ Len(core) >= 2
              /\ core[Len(core)] = "."
              /\ AllIn(SubSeq(core, 1, Len(core) - 1), {"1"})

\* C21: a marker chunk is produced only for a heading marker, a '-' or '+'
\* bullet or digits and a '.', followed by whitespace, that starts at the
\* start of a line (leading whitespace allowed); never for such characters
\* in the middle of a line, and never for an asterisk.
C21_MarkersOnlyAtLineStart ==
  pc = "split" =>
    \A i \in 1..Len(chunks) :
      chunks[i].start # <<>> =>
        /\ chunks[i].start = Parts[i]
        /\ MarkerShape(chunks[i].start)
        /\ \A j \in 1..Len(chunks[i].start) : chunks[i].start[j] # "*"
        /\ LineStart(data.s, PartStart(i))

\* All of C21 but the line start holds: a marker chunk has the shape of a
\* marker and no asterisk, and one that starts in the middle of a line is
\* the text right after another marker chunk (as the "# " of "- # ").
C21_MidLineOnlyAfterMarker ==
  pc = "split" =>
    \A i \in 1..Len(chunks) :
      chunks[i].start # <<>> =>
        /\ chunks[i].start = Parts[i]
        /\ MarkerShape(chunks[i].start)
        /\ \A j \in 1..Len(chunks[i].start) : chunks[i].start[j] # "*"
        /\ \/ LineStart(data.s, PartStart(i))
           \/ i > 1 /\ chunks[i - 1].start # <<>>

\* "- # ": the "# " that follows the bullet on the same line is a marker
\* chunk of its own.
C21_MidLineMarker ==
  /\ pc = "split"
  /\ data.s = <<"-", " ", "#", " ">>
  /\ chunks = <<MarkerChunk(<<"-", " ">>), MarkerChunk(<<"#", " ">>)>>

\* A text with an asterisk bullet is one prose chunk.
C21_AsteriskIsProse ==
  /\ pc = "split"
  /\ data.s = <<"*", " ", "a">>
  /\ chunks = <<ProseChunk(<<"*", " ", "a">>)>>

(***************************************************************************)
(* Authentication.                                                         *)
(***************************************************************************)
\* The request carries no bearer credentials: no Authorization header, an
\* empty one, or one of another scheme.
NoBearerHeader ==
  \/ ~authorization.some
  \/ authorization.v = <<>>
  \/ scheme_lower(get_authorization_scheme_param(authorization.v).scheme) # "bearer"

\* C22: in the development environment a request with no Authorization
\* header, or with one that is not a bearer header, is accepted by
\* get_current_user and is not answered 401.
C22_DevelopmentBypass ==
  (pc = "answered" /\ environment = "development" /\ NoBearerHeader) =>
    /\ response.status = "returned"
    /\ response.status_code # HTTP_401_UNAUTHORIZED

\* What the code does: in development the scheme lets such a request
\* through with no token, and get_current_user then answers it 401, as it
\* answers every request whose token does not verify.
C22_OnlyVerifiedTokensAccepted ==
  /\ (pc = "token" /\ environment = "development" /\ NoBearerHeader) =>
       token = None /\ response = NoResponse
  /\ pc = "answered" =>
       /\ response.status = "raised" => response.status_code = HTTP_401_UNAUTHORIZED
       /\ response.status = "returned" <=>
            /\ authorization.some
            /\ Len(authorization.v) = 2
            /\ scheme_lower(authorization.v[1]) = "bearer"
            /\ authorization.v[2] = "good.jwt"

\* A development request without any header, answered 401 by
\* get_current_user.
C22_DevelopmentRefused ==
  /\ pc = "answered"
  /\ environment = "development"
  /\ authorization = None
  /\ token = None
  /\ response.status = "raised"
  /\ response.status_code = HTTP_401_UNAUTHORIZED
  /\ response.detail = "Invalid token"

\* The target terms of the glossary the annotator used.
Targets ==
  IF pc = "normalized"
  THEN {glossary.EN_INDEX[k] : k \in DOMAIN glossary.EN_INDEX}
  ELSE {translator._term_mapping[k] : k \in DOMAIN translator._term_mapping}

\* Two strings are the same, letter case ignored when fold is set.
Same(a, b, fold) == IF fold THEN lower(a) = lower(b) ELSE a = b

\* The output s read along the matches of the text: the text between the
\* matches is there unchanged, every matched span is there, and an
\* annotated one is followed by one space and the bracketed target, then by
\* one more space exactly when the next character of the text is
\* alphanumeric; the output then goes on with the rest of the text.  o runs
\* over the output, p over the text.
RECURSIVE SpacedAsSpecified(_, _, _, _, _, _, _)
SpacedAsSpecified(s, text, matches, i, o, p, fold) ==
  IF i > Len(matches) THEN SubSeq(s, o, Len(s)) = SubSeq(text, p, Len(text))
  ELSE LET o1   == o + (matches[i].start - p)
           o2   == o1 + (matches[i].end - matches[i].start)
           n    == SegmentLen(s, o2)
           next == matches[i].end <= Len(text) /\ isalnum(text[matches[i].end])
       IN  /\ o2 - 1 <= Len(s)
           /\ SubSeq(s, o, o1 - 1) = SubSeq(text, p, matches[i].start - 1)
           /\ Same(SubSeq(s, o1, o2 - 1),
                   SubSeq(text, matches[i].start, matches[i].end - 1), fold)
           /\ IF n = 0
              THEN SpacedAsSpecified(s, text, matches, i + 1, o2, matches[i].end, fold)
              ELSE /\ SubSeq(s, o2 + 2, o2 + n - 2) \in Targets
                   /\ IF next
                      THEN /\ o2 + n <= Len(s) /\ s[o2 + n] = " "
                           /\ SpacedAsSpecified(s, text, matches, i + 1, o2 + n + 1,
                                                matches[i].end, fold)
                      ELSE SpacedAsSpecified(s, text, matches, i + 1, o2 + n,
                                             matches[i].end, fold)

\* C23: on a hit the output holds the matched span, one space and the
\* bracketed target term, and one more space after the closing bracket if
\* and only if the character that follows the match in the text is
\* alphanumeric; nothing is appended otherwise, the end of the text included.
C23_AnnotationSpacing ==
  AnnotatorRan => SpacedAsSpecified(annotated, data.s, spans, 1, 1, 1, FALSE)

\* The spacing is as C23 says in both annotators; only the letter case of
\* the span that _add_paired_translations puts out can differ (C18).
C23_SpacingUpToCase ==
  /\ pc = "normalized" => SpacedAsSpecified(annotated, data.s, spans, 1, 1, 1, FALSE)
  /\ pc = "annotated"  => SpacedAsSpecified(annotated, data.s, spans, 1, 1, 1, TRUE)

\* "a a" with the term "a ": the match "a " is followed by the letter "a",
\* so a space follows the closing bracket.
C23_SpaceBeforeLetter ==
  /\ pc = "normalized"
  /\ spans = <<Span(1, 3)>>
  /\ isalnum(data.s[3])
  /\ annotated = <<"a", " ", " ", "[", "z", "]", " ", "a">>

\* "A!" with the term "a": nothing follows the closing bracket but the text.
C23_NoSpaceBeforePunctuation ==
  /\ pc = "normalized"
  /\ data.s = <<"A", "!">>
  /\ annotated = <<"A", " ", "[", "w", "]", "!">>

(***************************************************************************)
(* The glossary builders.                                                  *)
(***************************************************************************)
\* A term that is empty once its whitespace is normalized.
Blank(term) == NormalizeWhitespace(term) = <<>>

\* The pairs of a loaded list that are invalid: source or target blank.
InvalidPairs(loaded) ==
  {i \in 1..Len(loaded) : Blank(loaded[i].source) \/ Blank(loaded[i].target)}

\* A lookup map and the alternatives of a pattern hold nothing that can
\* only come from an invalid pair of the loaded list: no blank key or
\* target, and no key or alternative that is the source of invalid pairs only.
Filtered(loaded, index, parts) ==
  /\ \A k \in DOMAIN index : ~Blank(k) /\ ~Blank(index[k])
  /\ \A j \in 1..Len(parts) : ~Blank(parts[j])
  /\ \A i \in InvalidPairs(loaded) :
       LET k == lower(NormalizeWhitespace(loaded[i].source))
       IN  (\A i2 \in 1..Len(loaded) :
              lower(NormalizeWhitespace(loaded[i2].source)) = k => i2 \in InvalidPairs(loaded))
             => /\ k \notin DOMAIN index
                /\ \A j \in 1..Len(parts) : lower(parts[j]) # k

\* C24: no term pair whose source or target is empty after whitespace
\* normalization is in the exact-match lookup map or gives an alternative of
\* the compiled pattern, in BaseTranslator._compile_patterns and in the
\* EN_INDEX and GLOSSARY_PATTERN of the terms module.
C24_InvalidPairsFiltered ==
  /\ Filtered(term_pairs, translator._term_mapping, translator._compiled_pattern)
  /\ pc = "normalized" =>
       Filtered(glossary.TERM_PAIRS, glossary.EN_INDEX, glossary.GLOSSARY_PATTERN)

\* BaseTranslator._compile_patterns does filter: of the seven pairs loaded,
\* the one with a blank source and the one with a blank target are left out.
C24_TranslatorFilters ==
  /\ Cardinality(InvalidPairs(term_pairs)) = 2
  /\ Filtered(term_pairs, translator._term_mapping, translator._compiled_pattern)
  /\ Filtered(term_pairs, translator._case_mapping, translator._compiled_pattern)
  /\ DOMAIN translator._term_mapping = {<<"a">>, <<"a", " ", "a">>, <<"i", CombiningDot>>}

\* The terms module imported with a glossary that has a blank source: the
\* blank is a key of EN_INDEX and an alternative of GLOSSARY_PATTERN.
C24_BlankInIndex ==
  /\ pc = "normalized"
  /\ glossary.TERM_PAIRS = PhraseGlossary
  /\ <<" ">> \in DOMAIN glossary.EN_INDEX
  /\ \E j \in 1..Len(glossary.GLOSSARY_PATTERN) : glossary.GLOSSARY_PATTERN[j] = <<" ">>

\* The last element of a non-empty set of positions.
Greatest(S) == CHOOSE i \in S : \A j \in S : j <= i

\* The pairs of a loaded list with the lowercased source k: for the
\* translator the valid ones, sources normalized; for the terms module all.
LoadedWithKey(loaded, k, filtering) ==
  {i \in 1..Len(loaded) :
     IF filtering
     THEN i \notin InvalidPairs(loaded) /\ lower(NormalizeWhitespace(loaded[i].source)) = k
     ELSE lower(loaded[i].source) = k}

\* C25: when several loaded pairs have the same source, letter case
\* ignored, the exact-match lookup of the lowercased source gives the target
\* of the one loaded last, although the translator sorts the terms by
\* length before it fills its map.
C25_LastLoadedWins ==
  /\ \A k \in DOMAIN translator._term_mapping :
       translator._term_mapping[k]
         = NormalizeWhitespace(term_pairs[Greatest(LoadedWithKey(term_pairs, k, TRUE))].target)
  /\ pc = "normalized" =>
       \A k \in DOMAIN glossary.EN_INDEX :
         glossary.EN_INDEX[k]
           = glossary.TERM_PAIRS[Greatest(LoadedWithKey(glossary.TERM_PAIRS, k, FALSE))].target

\* The sources that lowercase to k all have the same length.
SameLengthSources(loaded, k) ==
  \A i \in LoadedWithKey(loaded, k, TRUE), j \in LoadedWithKey(loaded, k, TRUE) :
    Len(NormalizeWhitespace(loaded[i].source)) = Len(NormalizeWhitespace(loaded[j].source))

\* The last loaded pair does win where the sort keeps the loaded order:
\* among sources of the same length ("A" -> "x" then "a" -> "w" gives "w"),
\* and always in EN_INDEX, which is filled without sorting.  It does not
\* for the dotted capital I, loaded before its longer lowercase form.
C25_LastLoadedWinsAtEqualLength ==
  /\ \A k \in DOMAIN translator._term_mapping :
       SameLengthSources(term_pairs, k) =>
         translator._term_mapping[k]
           = NormalizeWhitespace(term_pairs[Greatest(LoadedWithKey(term_pairs, k, TRUE))].target)
  /\ pc = "normalized" =>
       \A k \in DOMAIN glossary.EN_INDEX :
         glossary.EN_INDEX[k]
           = glossary.TERM_PAIRS[Greatest(LoadedWithKey(glossary.TERM_PAIRS, k, FALSE))].target
  /\ LoadedWithKey(term_pairs, <<"a">>, TRUE) = {1, 5}
  /\ translator._term_mapping[<<"a">>] = <<"w">>
  /\ LoadedWithKey(term_pairs, <<"i", CombiningDot>>, TRUE) = {6, 7}
  /\ translator._term_mapping[<<"i", CombiningDot>>] = <<"p">>
  /\ (pc = "annotated" /\ data.s = <<"a">>) => annotated = <<"a", " ", "(", "w", ")">>
  /\ (pc = "normalized" /\ glossary.TERM_PAIRS = PhraseGlossary /\ data.s = <<"a">>) =>
       annotated = <<"a", " ", "[", "w", "]">>

(***************************************************************************)
(* translate when the service answers with another number of strings.      *)
(***************************************************************************)
\* The strings translate sent in its one request, and what translate_texts
\* made of the answer.
Sent   == requests[1]
Answer == translate_texts(backend, Sent, mode)

\* translate_texts returned k strings for the n it was given, k # n.
LengthMismatch ==
  /\ pc = "translated"
  /\ requests # <<>>
  /\ Answer.status = "ok"
  /\ Len(Answer.out) # Len(Sent)

\* The leaves translate sends: those _collect_translatable_strings finds
\* in a tree, or the bare string itself.
SentLeaves ==
  IF data.tag = "str" THEN << [path |-> <<>>, s |-> data.s] >>
  ELSE _collect_translatable_strings(heap0, data, exclude_keys)

\* No error; the i-th returned string is at the i-th collected leaf for
\* i up to min(n, k), every later collected leaf holds its original string,
\* and nothing else differs from the input.
PairedPositionally ==
  /\ outcome.status = "ok"
  /\ SameShapeExcept(heap, outcome.v, PathSet(SentLeaves))
  /\ \A i \in 1..Len(SentLeaves) :
       NodeAt(heap, outcome.v, SentLeaves[i].path)
         = IF i <= Len(Answer.out) THEN Str(Answer.out[i]) ELSE Str(SentLeaves[i].s)

\* C26 (as stated): when translate_texts returns k strings for n collected
\* leaves, k # n, translate raises no error, pairs the results by position,
\* overwrites the first min(n, k) collected leaves only and leaves the
\* others with their original strings.
C26_MismatchIsSilent ==
  LengthMismatch => PairedPositionally

\* C26 (amended): the same for every mapping or sequence; for a bare string
\* translate takes the first returned string, and raises IndexError when
\* none was returned.
C26_MismatchIsSilentForTrees ==
  /\ (LengthMismatch /\ data.tag = "ref") => PairedPositionally
  /\ (LengthMismatch /\ data.tag = "str") =>
       IF Answer.out = <<>>
       THEN outcome.status = "raise" /\ outcome.err = "IndexError"
       ELSE outcome.status = "ok" /\ outcome.v = Str(Answer.out[1])

\* Two leaves were collected and one string came back: no error, the first
\* leaf holds the returned string and the second its original.
C26_Witness ==
  /\ LengthMismatch
  /\ data.tag = "ref"
  /\ Len(SentLeaves) = 2
  /\ Len(Answer.out) = 1
  /\ outcome.status = "ok"
  /\ NodeAt(heap, outcome.v, SentLeaves[1].path) = Str(Answer.out[1])
  /\ NodeAt(heap, outcome.v, SentLeaves[2].path) = Str(SentLeaves[2].s)
  /\ Answer.out[1] # SentLeaves[1].s

\* One leaf collected and two strings returned: the second is dropped.
C26_ExtraDropped ==
  /\ LengthMismatch
  /\ data.tag = "ref"
  /\ Len(SentLeaves) = 1
  /\ Len(Answer.out) = 2
  /\ outcome.status = "ok"

(***************************************************************************)
(* The collected paths as keys of the mapping of translations.             *)
(***************************************************************************)
\* translations = dict(zip(map(tuple, paths), translated_strings))
TranslationsBuilt == DictOfZip(paths, translated, 1, <<>>)

\* C27: the paths _collect_translatable_strings returns are pairwise
\* distinct and each is the position of a string leaf of the input, the
\* collected string; so the mapping _reconstruct_data builds from them has
\* one entry for every collected string, and every translated string is put
\* at its leaf, none lost to a key collision.
C27_PathsDistinctAndAddressLeaves ==
  /\ pc = "collected" =>
       /\ \A i \in 1..Len(pairs), j \in 1..Len(pairs) :
            i # j => pairs[i].path # pairs[j].path
       /\ \A i \in 1..Len(pairs) :
            /\ pairs[i].path \in OriginalPositions
            /\ OriginalAt(pairs[i].path) = Str(pairs[i].s)
  /\ pc = "reconstructed" =>
       /\ paths = PathsOf(pairs)
       /\ Len(TranslationsBuilt) = Len(pairs)
       /\ \A i \in 1..Len(pairs) :
            TranslationsBuilt[i] = [path |-> paths[i], text |-> translated[i]]
       /\ outcome.status = "ok" =>
            \A i \in 1..Len(pairs) :
              NodeAt(heap, outcome.v, paths[i]) = Str(translated[i])

\* Two strings were collected, the mapping has two entries and both
\* translations are in the result.
C27_Witness ==
  /\ pc = "reconstructed"
  /\ Len(pairs) = 2
  /\ Len(TranslationsBuilt) = 2
  /\ translated = Faithful(StringsOf(pairs))
  /\ outcome.status = "ok"
  /\ \A i \in 1..2 : NodeAt(heap, outcome.v, paths[i]) = Str(Translation(pairs[i].s))

(***************************************************************************)
(* Exclusion and sequence indices.                                         *)
(***************************************************************************)
\* Position p lies at or under element 0 of a sequence, or at or under a
\* mapping key "0".
UnderIndexZero(p) == \E i \in 1..Len(p) : p[i] = Idx(0)
UnderKeyZero(p)   == \E i \in 1..Len(p) : p[i] = Key("0")

\* C28: exclusion compares the string form of every path token, so with
\* exclude_keys = {"0"} element 0 of every sequence and everything beneath
\* it is skipped, as is everything under a mapping key "0": none of it is
\* collected, every other translatable string is, and translate leaves all
\* of it as it was.
C28_IndexMatchesExcludedKey ==
  /\ (pc = "collected" /\ exclude_keys = {"0"}) =>
       \A p \in OriginalPositions :
         OriginalAt(p).tag = "str" =>
           (p \in PathSet(pairs) <=>
              /\ ~UnderIndexZero(p)
              /\ ~UnderKeyZero(p)
              /\ ContainsAlnum(OriginalAt(p).s))
  /\ (pc = "translated" /\ exclude_keys = {"0"} /\ outcome.status = "ok") =>
       /\ Positions(heap, outcome.v, <<>>) = OriginalPositions
       /\ \A p \in OriginalPositions :
            (OriginalAt(p).tag = "str" /\ (UnderIndexZero(p) \/ UnderKeyZero(p))) =>
              NodeAt(heap, outcome.v, p) = OriginalAt(p)

\* [{"b": "a"}, "a"] with exclude_keys = {"0"}: the string under element 0
\* is translatable and was skipped, the string at element 1 was collected.
C28_Witness ==
  /\ pc = "collected"
  /\ exclude_keys = {"0"}
  /\ <<Idx(0), Key("b")>> \in OriginalPositions
  /\ OriginalAt(<<Idx(0), Key("b")>>) = Str(<<"a">>)
  /\ pairs = << [path |-> <<Idx(1)>>, s |-> <<"a">>] >>

(***************************************************************************)
(* The fuzzy fallback.                                                     *)
(***************************************************************************)
\* No source term of the loaded glossary starts or ends with whitespace.
NoPaddedTerm(loaded) ==
  \A i \in 1..Len(loaded) :
    LET en == loaded[i].source
    IN  en = <<>> \/ (~IsSpaceChar(en[1]) /\ ~IsSpaceChar(en[Len(en)]))

LowersAsItFolds(text) == \A i \in 1..Len(text) : LowerChar(text[i]) = CaseFold(text[i])

C29_LongSAsksFuzzy ==
  /\ pc = "normalized"
  /\ glossary.TERM_PAIRS = PlainGlossary
  /\ data.s = <<LongS>>
  /\ spans = <<Span(1, 2)>>
  /\ FuzzySpans = {1}
  /\ fuzzy.score = threshold - 1
  /\ annotated = data.s

\* With a padded term the fuzzy search is asked (the case of C17).
C29_PaddedAsksFuzzy ==
  /\ pc = "normalized"
  /\ ~NoPaddedTerm(glossary.TERM_PAIRS)
  /\ FuzzySpans # {}

(***************************************************************************)
(* C30: the masking configuration is process-wide.                         *)
(***************************************************************************)
\* The instance masks every value of the code / returns every value of the
\* code as it is.
Masks(sets, self, code) ==
  \A value \in TagValues :
    _format_tag_value(sets, self, code, value, TRUE) = _mask_pii_value(value)
Passes(sets, self, code) ==
  \A value \in TagValues : _format_tag_value(sets, self, code, value, TRUE) = value

\* The codes every instance masks.
MaskedCodes(sets) == {code \in TagCodes : \A self \in Instances : Masks(sets, self, code)}

\* C30: after any sequence of add_pii_code and remove_pii_code calls, every
\* instance's _format_tag_value(code, value, mask_pii=True) returns the
\* masked value when the code is in the shared PII_CODES set and the value
\* itself when it is not; add_pii_code and remove_pii_code change the masking
\* of their code for every instance at once, and no other call, a change
\* made to a set that get_pii_codes returned included, changes which codes
\* are masked.
C30_MaskingIsProcessWide ==
  /\ [](\A self \in Instances, code \in TagCodes :
          IF code \in pii_sets[PII_CODES]
          THEN Masks(pii_sets, self, code) /\ ~Passes(pii_sets, self, code)
          ELSE Passes(pii_sets, self, code) /\ ~Masks(pii_sets, self, code))
  /\ []((call.op = "_format_tag_value" /\ call.mask_pii) =>
          call.result = IF call.code \in pii_sets[PII_CODES]
                        THEN _mask_pii_value(call.value) ELSE call.value)
  /\ [][ /\ call'.op = "add_pii_code" =>
              MaskedCodes(pii_sets') = MaskedCodes(pii_sets) \cup {call'.code}
         /\ call'.op = "remove_pii_code" =>
              MaskedCodes(pii_sets') = MaskedCodes(pii_sets) \ {call'.code}
         /\ call'.op \in {"get_pii_codes", "add", "discard", "_format_tag_value"} =>
              /\ MaskedCodes(pii_sets') = MaskedCodes(pii_sets)
              /\ pii_sets'[PII_CODES] = pii_sets[PII_CODES] ]_vars

\* Reached: "scheme_name" was added to the class, a caller discarded
\* "application_id" from a set it was given, and every instance still masks
\* both codes.
C30_Witness ==
  /\ call.op = "discard"
  /\ call.code = "application_id"
  /\ "application_id" \in call.before
  /\ "application_id" \notin pii_sets[call.handle]
  /\ pii_sets[PII_CODES] = InitialPiiCodes \cup {"scheme_name"}
  /\ MaskedCodes(pii_sets) = TagCodes

\* A value that is its own mask comes back the same whether its code is
\* masked or not: "masked exactly when the code is in the set" is told from
\* the other values.
C30_MaskLeavesStars ==
  _mask_pii_value(<<"*", "*", "*">>) = <<"*", "*", "*">>
    /\ (call.op = "_format_tag_value" /\ call.value = <<"*", "*", "*">>
          => call.result = call.value)

====
